---- MODULE Spec2Model ----
(***************************************************************************)
(* A model of the conversational middleware of app/main.py: the per-user   *)
(* session store (conversation_history, last_interaction, search_cache,    *)
(* appointment_context), the process-wide auth token of                    *)
(* app/tools/service_tools.py, the backend adapters of app/tools and the   *)
(* /search handler that ties them together.                                *)
(*                                                                         *)
(* Texts (queries, coordinates, role tags) are sequences of one-character  *)
(* strings, so that tokenising, lower-casing, stripping and the regular    *)
(* expressions are computed and not assumed.  Time is counted in minutes.  *)
(***************************************************************************)
EXTENDS Integers, Sequences, FiniteSets, TLC

\* ------------------------------------------------------------- bounds
\* The clock stops advancing at MaxTime (minutes since start-up).
MaxTime == 3
\* Requests accepted in one run of the service.
MaxRequests == 3
\* Handler instances that can be in flight at once.
MaxInFlight == 2
\* The clock of the cache harness stops advancing at MaxCacheTime.
MaxCacheTime == 31

\* ---------------------------------------------------- program constants
CONVERSATION_TIMEOUT == 2
SEARCH_CACHE_TIMEOUT == 30

\* Python's None, where a string may stand, and where a non-negative int may.
None == "None"
\* None where a text (a sequence of characters) may stand: no text starts
\* with this element.
NoneText == <<"None">>
NoneInt == 0 - 1

\* ------------------------------------------------------------ dictionaries
\* A Python dict is a function whose DOMAIN is its key set.
EmptyDict == <<>>
Has(d, k) == k \in DOMAIN d
Put(d, k, v) == [x \in (DOMAIN d) \cup {k} |-> IF x = k THEN v ELSE d[x]]
Del(d, k) == [x \in (DOMAIN d) \ {k} |-> d[x]]
Get(d, k, default) == IF k \in DOMAIN d THEN d[k] ELSE default

\* ------------------------------------------------------------------ text
Digits == <<"0", "1", "2", "3", "4", "5", "6", "7", "8", "9">>
IsDigit(c) == \E i \in 1..10 : Digits[i] = c
DigitVal(c) == (CHOOSE i \in 1..10 : Digits[i] = c) - 1
UpperCase == <<"A", "B", "C", "D", "E", "F", "G", "H", "I", "J", "K", "L", "M",
               "N", "O", "P", "Q", "R", "S", "T", "U", "V", "W", "X", "Y", "Z">>
LowerCase == <<"a", "b", "c", "d", "e", "f", "g", "h", "i", "j", "k", "l", "m",
               "n", "o", "p", "q", "r", "s", "t", "u", "v", "w", "x", "y", "z">>
IsUpper(c) == \E i \in 1..26 : UpperCase[i] = c
IsLower(c) == \E i \in 1..26 : LowerCase[i] = c
IsSpace(c) == c \in {" ", "\t", "\n"}
\* \w of the re module
IsWordChar(c) == IsDigit(c) \/ IsUpper(c) \/ IsLower(c) \/ c = "_"

\* str.lower()
LowerChar(c) == IF IsUpper(c) THEN LowerCase[CHOOSE i \in 1..26 : UpperCase[i] = c] ELSE c
Lower(s) == [i \in 1..Len(s) |-> LowerChar(s[i])]

\* str.strip()
RECURSIVE LStrip(_)
LStrip(s) == IF s # <<>> /\ IsSpace(Head(s)) THEN LStrip(Tail(s)) ELSE s
RECURSIVE RStrip(_)
RStrip(s) == IF s # <<>> /\ IsSpace(s[Len(s)]) THEN RStrip(SubSeq(s, 1, Len(s) - 1)) ELSE s
Strip(s) == RStrip(LStrip(s))

\* The Python string a sequence of characters spells.
RECURSIVE Join(_)
Join(s) == IF s = <<>> THEN "" ELSE Head(s) \o Join(Tail(s))

\* needle in haystack, for strings
Contains(hay, needle) ==
    \E i \in 1..(Len(hay) - Len(needle) + 1) : SubSeq(hay, i, i + Len(needle) - 1) = needle

\* re.findall(r'\w+', s): the maximal runs of word characters, in order.
RECURSIVE WordRun(_)
WordRun(s) == IF s # <<>> /\ IsWordChar(Head(s)) THEN 1 + WordRun(Tail(s)) ELSE 0
RECURSIVE FindWords(_)
FindWords(s) ==
    IF s = <<>> THEN <<>>
    ELSE LET n == WordRun(s) IN
         IF n = 0 THEN FindWords(Tail(s))
         ELSE <<Join(SubSeq(s, 1, n))>> \o FindWords(SubSeq(s, n + 1, Len(s)))

\* int(s) for a string of digits, and str(n) / f"{n:02d}" for n >= 0
RECURSIVE IntOf(_)
IntOf(s) == IF s = <<>> THEN 0 ELSE 10 * IntOf(SubSeq(s, 1, Len(s) - 1)) + DigitVal(s[Len(s)])
RECURSIVE IntText(_)
IntText(n) == IF n < 10 THEN <<Digits[n + 1]>> ELSE Append(IntText(n \div 10), Digits[(n % 10) + 1])
Pad2(n) == IF n < 10 THEN <<"0">> \o IntText(n) ELSE IntText(n)
IntStr(n) == Join(IntText(n))
AllDigits(s) == \A i \in 1..Len(s) : IsDigit(s[i])

\* ----------------------------------------------------- language detection
MARATHI_KEYWORDS ==
    {
    "aahe", "aahet", "aai", "aaj", "ahe", "ahet", "ali", "alo", "amcha", "amche",
    "amchi", "amchya", "amhala", "ani", "appointment", "appointments", "baba", "book",
    "booking", "date", "divas", "gela", "geli", "gelo", "ghar", "ho", "hot", "hota",
    "hotat", "hotel", "hoti", "ithe", "ja", "jau", "job", "ka", "kal", "kam", "karat",
    "karnar", "kartat", "karte", "karto", "kartos", "kartoy", "karun", "kasa", "kase",
    "kashi", "kay", "kela", "kele", "keli", "kelo", "keti", "kevha", "ki", "kich",
    "kiti", "kon", "kuth", "kuthe", "majha", "majhe", "majhi", "majhya", "mala",
    "maza", "mazi", "meet", "meeting", "mhanala", "mhanali", "mhanat", "mhanje",
    "mhanon", "mhanun", "mi", "mule", "mulga", "mulgi", "nahi", "naka", "nako", "nhi",
    "nka", "nko", "pahije", "pahijel", "pahijele", "pahijeli", "pahijet", "pan",
    "parwa", "pudhe", "ratri", "sakal", "sakta", "saktat", "saktel", "saktele",
    "sakteli", "sandhyakal", "sang", "sanga", "sangna", "sangnar", "sangta", "sangtat",
    "sangtel", "sangtele", "sangteli", "sathi", "schedule", "shakta", "shaktat",
    "shaktel", "shaktele", "shakteli", "sobat", "tar", "task", "te", "thodi", "time",
    "to", "tu", "tula", "tumcha", "tumche", "tumchi", "tumchya", "tumhala", "tya",
    "tyachi", "tyachya", "tyala", "tyanche", "tyanchi", "tyanna", "udya", "vel",
    "work", "ye", "yet", "yeu"
    }

ZeroDivisionError == "ZeroDivisionError"

\* A detection that takes exactly 30% of keywords for Marathi.
DetectAtThreshold(text) ==
    IF text = <<>> THEN "en"
    ELSE IF FindWords(Lower(text)) = <<>> THEN ZeroDivisionError
    ELSE IF 10 * Cardinality({i \in 1..Len(FindWords(Lower(text))) :
                                 FindWords(Lower(text))[i] \in MARATHI_KEYWORDS})
               >= 3 * Len(FindWords(Lower(text)))
    THEN "mr" ELSE "en"

detect_language(text) ==
    IF text = <<>> THEN "en"
    ELSE LET words == FindWords(Lower(text))
             marathi_word_count == Cardinality({i \in 1..Len(words) : words[i] \in MARATHI_KEYWORDS})
         IN IF Len(words) = 0 THEN ZeroDivisionError
            ELSE IF 10 * marathi_word_count > 3 * Len(words) THEN "mr" ELSE "en"

\* -------------------------------------------------- role-tag normalisation
\* The table's keys are Python strings; its values are kept as texts.
TAG_NAME_MAPPING ==
    [t \in {"doctor", "doctors", "physician", "physicians", "surgeon", "surgeons"} |->
          <<"d", "o", "c", "t", "o", "r">>]
    @@ [t \in {"dentist", "dentists"} |->
          <<"d", "e", "n", "t", "i", "s", "t">>]
    @@ [t \in {"nurse", "nurses"} |->
          <<"n", "u", "r", "s", "e">>]
    @@ [t \in {"mla", "mlas"} |->
          <<"m", "l", "a">>]
    @@ [t \in {"mp", "mps"} |->
          <<"m", "p">>]
    @@ [t \in {"minister", "ministers"} |->
          <<"m", "i", "n", "i", "s", "t", "e", "r">>]
    @@ [t \in {"lawyer", "lawyers", "advocate", "advocates"} |->
          <<"l", "a", "w", "y", "e", "r">>]
    @@ [t \in {"teacher", "teachers"} |->
          <<"t", "e", "a", "c", "h", "e", "r">>]
    @@ [t \in {"professor", "professors"} |->
          <<"p", "r", "o", "f", "e", "s", "s", "o", "r">>]

\* A normalisation that strips the tag and keeps its letter case.
NormalizeAsWritten(tag) == Get(TAG_NAME_MAPPING, Join(Strip(tag)), Strip(tag))
\* normalize_tag_name: a text to a text
normalize_tag_name(tag) ==
    LET t == Strip(Lower(tag))
    IN Get(TAG_NAME_MAPPING, Join(t), t)

\* ------------------------------------------------------------ float()
\* float(s) for the decimal notation with at most one fractional digit:
\* optional surrounding blanks, an optional sign, digits with an optional
\* point.  The value is kept in tenths; ok is FALSE where float() raises
\* ValueError.
ParseAnything(text) == [ok |-> TRUE, value |-> 0]
ParseFloat(text) ==
    LET s == Strip(text)
        signed == s # <<>> /\ s[1] \in {"+", "-"}
        body == IF signed THEN Tail(s) ELSE s
        dots == {i \in 1..Len(body) : body[i] = "."}
        ip == IF dots = {} THEN body ELSE SubSeq(body, 1, (CHOOSE i \in dots : TRUE) - 1)
        fp == IF dots = {} THEN <<>> ELSE SubSeq(body, (CHOOSE i \in dots : TRUE) + 1, Len(body))
        ok == /\ Cardinality(dots) <= 1
              /\ AllDigits(ip) /\ AllDigits(fp)
              /\ Len(ip) + Len(fp) >= 1
              /\ Len(fp) <= 1
        mag == 10 * IntOf(ip) + IntOf(fp)
    IN IF ~ok THEN [ok |-> FALSE, value |-> 0]
       ELSE [ok |-> TRUE, value |-> IF signed /\ s[1] = "-" THEN 0 - mag ELSE mag]
\* str(x) of a float kept in tenths
FloatStr(x) ==
    LET mag == IF x < 0 THEN 0 - x ELSE x
    IN (IF x < 0 THEN "-" ELSE "") \o IntStr(mag \div 10) \o "." \o IntStr(mag % 10)
\* ------------------------------------------------------- parse_date_time
\* The result's date and time are texts, NoneText where Python returns None.
DigitsAt(s, i, n) == i >= 1 /\ i + n - 1 <= Len(s) /\ \A k \in i..(i + n - 1) : IsDigit(s[k])
\* \d{1,2}, greedy: what follows it in both patterns cannot start with a
\* digit, so the longest run of at most two digits is the only match.
NumLen(s, i) == IF DigitsAt(s, i, 2) THEN 2 ELSE IF DigitsAt(s, i, 1) THEN 1 ELSE 0
CharAt(s, i, cs) == i >= 1 /\ i <= Len(s) /\ s[i] \in cs
RECURSIVE SkipSpaces(_, _)
SkipSpaces(s, i) == IF i <= Len(s) /\ IsSpace(s[i]) THEN SkipSpaces(s, i + 1) ELSE i
\* the leftmost of the positions where a pattern matches
Leftmost(at) == CHOOSE i \in at : \A j \in at : i <= j

\* (\d{1,2})[/-](\d{1,2})[/-](\d{4}) matched at position i: the day ends
\* before j, the month before k
DateFields(s, i, j, k) ==
    IF /\ j > i /\ CharAt(s, j, {"/", "-"})
       /\ k > j + 1 /\ CharAt(s, k, {"/", "-"})
       /\ DigitsAt(s, k + 1, 4)
    THEN [matched |-> TRUE,
          day |-> IntOf(SubSeq(s, i, j - 1)),
          month |-> IntOf(SubSeq(s, j + 1, k - 1)),
          year |-> IntOf(SubSeq(s, k + 1, k + 4))]
    ELSE [matched |-> FALSE]
DateMonth(s, i, j) == DateFields(s, i, j, j + 1 + NumLen(s, j + 1))
DateAt(s, i) == DateMonth(s, i, i + NumLen(s, i))

\* an optional ":MM" at position i: the minutes, and the position after it
MinAt(s, i) ==
    IF CharAt(s, i, {":"}) /\ DigitsAt(s, i + 1, 2)
    THEN [min |-> IntOf(SubSeq(s, i + 1, i + 2)), next |-> i + 3]
    ELSE [min |-> NoneInt, next |-> i]
\* an optional am|pm at position i
AmPmAt(s, i) ==
    IF CharAt(s, i, {"a", "p"}) /\ CharAt(s, i + 1, {"m"})
    THEN [ampm |-> s[i] \o "m", next |-> i + 2]
    ELSE [ampm |-> None, next |-> i]
\* (\d{1,2})(?::(\d{2}))?\s*(am|pm)? matched at position i: the hour has n
\* digits, m is the minutes group and a the am|pm group
ClockFields(s, i, n, m, a) ==
    [matched |-> n > 0, hour |-> IF n > 0 THEN IntOf(SubSeq(s, i, i + n - 1)) ELSE 0,
     min |-> m.min, ampm |-> a.ampm, next |-> a.next]
ClockAmPm(s, i, n, m) == ClockFields(s, i, n, m, AmPmAt(s, SkipSpaces(s, m.next)))
ClockMin(s, i, n) == ClockAmPm(s, i, n, MinAt(s, i + n))
ClockAt(s, i) == ClockMin(s, i, NumLen(s, i))

\* (\d{1,2})(?::(\d{2}))?\s*(am|pm)?\s*to\s*(\d{1,2})(?::(\d{2}))?\s*(am|pm)?
\* matched at position i: "to" stands at t, between the two clock times
TimeFields(s, start, t, end) ==
    IF start.matched /\ CharAt(s, t, {"t"}) /\ CharAt(s, t + 1, {"o"}) /\ end.matched
    THEN [matched |-> TRUE,
          start_hour |-> start.hour, start_min |-> start.min, start_ampm |-> start.ampm,
          end_hour |-> end.hour, end_min |-> end.min, end_ampm |-> end.ampm]
    ELSE [matched |-> FALSE]
TimeEnd(s, start, t) == TimeFields(s, start, t, ClockAt(s, SkipSpaces(s, t + 2)))
TimeTo(s, start) == TimeEnd(s, start, SkipSpaces(s, start.next))
TimeAt(s, i) == TimeTo(s, ClockAt(s, i))

\* re.search: the match at the leftmost position that has one
DateFirst(s, at) == IF at = {} THEN [matched |-> FALSE] ELSE DateAt(s, Leftmost(at))
DateSearch(s) == DateFirst(s, {i \in 1..Len(s) : DateAt(s, i).matched})
TimeFirst(s, at) == IF at = {} THEN [matched |-> FALSE] ELSE TimeAt(s, Leftmost(at))
TimeSearch(s) == TimeFirst(s, {i \in 1..Len(s) : TimeAt(s, i).matched})

\* An hour taken as it is written, whatever its marker.
HourAsWritten(hour, ampm) == hour
Hour24(hour, ampm) ==
    IF ampm = "pm" /\ hour < 12 THEN hour + 12
    ELSE IF ampm = "am" /\ hour = 12 THEN 0
    ELSE hour
MinOrZero(min) == IF min = NoneInt THEN 0 ELSE min
\* lines 227-237
Duration(start_time, end_time) ==
    IF end_time < start_time THEN end_time + 24 * 60 - start_time ELSE end_time - start_time
ParsedRange(date, start_hour, start_min, end_hour, end_min) ==
    [date |-> date,
     time |-> Pad2(start_hour) \o <<":">> \o Pad2(start_min) \o <<":", "0", "0">>,
     duration |-> Duration(start_hour * 60 + start_min, end_hour * 60 + end_min)]
\* lines 203-225
ParsedTime(date, time_match) ==
    IF ~time_match.matched THEN [date |-> date, time |-> NoneText, duration |-> NoneInt]
    ELSE ParsedRange(date, Hour24(time_match.start_hour, time_match.start_ampm),
                     MinOrZero(time_match.start_min),
                     Hour24(time_match.end_hour, time_match.end_ampm),
                     MinOrZero(time_match.end_min))
\* A parse that looks for the time range whether or not there is a date.
ParsedWithoutDate(input_str, date_match) ==
    ParsedTime(IF date_match.matched THEN IntText(date_match.year) ELSE NoneText,
               TimeSearch(Lower(input_str)))
\* lines 194-201
ParsedDate(input_str, date_match) ==
    IF ~date_match.matched THEN [date |-> NoneText, time |-> NoneText, duration |-> NoneInt]
    ELSE ParsedTime(IntText(date_match.year) \o <<"-">> \o Pad2(date_match.month)
                        \o <<"-">> \o Pad2(date_match.day),
                    TimeSearch(Lower(input_str)))
parse_date_time(input_str) == ParsedDate(input_str, DateSearch(input_str))


\* ------------------------------------------------------------ JSON values
\* Every JSON value is a record with a json field naming its type.
JNull == [json |-> "null"]
JList(items) == [json |-> "list", items |-> items]
\* {key: value}
JObject(key, value) == [json |-> "dict", key |-> key, value |-> value]
\* bool(v), as "if v:" and "not v" take it
Truthy(v) ==
    CASE v.json = "null" -> FALSE
      [] v.json = "list" -> v.items # <<>>
      [] OTHER -> TRUE

\* What the nearby-search endpoint may answer with status 200.
Person == [user_id |-> "p1"]
Found == [json |-> "dict", success |-> TRUE, data |-> [users |-> <<Person>>]]
NoneFound == [json |-> "dict", success |-> TRUE, data |-> [users |-> <<>>]]
EmptyList == JList(<<>>)
ServiceList == JList(<<"health">>)
Availability == [json |-> "dict", success |-> TRUE, slots |-> <<"a1">>]
\* What the task and appointment endpoints may answer with status 2xx.
Created == [json |-> "dict", success |-> TRUE]

\* An HTTP exchange with the backend: a response with its status and decoded
\* body, or no response at all (requests raises a RequestException).
HttpResponse(status, body) == [kind |-> "response", status |-> status, body |-> body]
NetworkError == [kind |-> "network_error", status |-> 0, body |-> JNull]
NoReply == [kind |-> "unused", status |-> 0, body |-> JNull]

\* ------------------------------------------------------------- responses
Message(lang, en, mr) == IF lang = "mr" THEN mr ELSE en
ResponseBody(message) == [json |-> "dict", response |-> [message |-> message, profile |-> None]]
\* A default response that is in English whatever the language.
DefaultInEnglish(lang) == ResponseBody("I didn't understand that. Could you please rephrase?")
get_default_response(lang) ==
    ResponseBody(Message(lang, "I didn't understand that. Could you please rephrase?",
                         "mr: I didn't understand that"))
get_location_error(lang) ==
    ResponseBody(Message(lang, "Invalid latitude or longitude format",
                         "mr: Invalid latitude or longitude format"))
get_person_not_found_error(lang) ==
    ResponseBody(Message(lang, "I couldn't find the person you want to create a task for.",
                         "mr: I couldn't find the person"))

\* What the endpoint returns: a body with status 200, or status 500 when an
\* exception leaves the handler.
NoResponse == [status |-> 0, body |-> JNull]
Returned(body) == [status |-> 200, body |-> body]
Raised(exception) == [status |-> 500, body |-> [json |-> "error", exception |-> exception]]

\* -------------------------------------------------------- the session store
\* clean_old_conversations: the four dictionaries after the sweep at time t
ExpiredAtTimeout(li, t) == {user_id \in DOMAIN li : t - li[user_id] >= CONVERSATION_TIMEOUT}
Expired(li, t) == {user_id \in DOMAIN li : t - li[user_id] > CONVERSATION_TIMEOUT}
Without(d, keys) == [k \in (DOMAIN d) \ keys |-> d[k]]
SweepKeepingCache(ch, li, sc, ac, t) ==
    [conversation_history |-> Without(ch, Expired(li, t)),
     last_interaction |-> Without(li, Expired(li, t)),
     search_cache |-> sc,
     appointment_context |-> Without(ac, Expired(li, t))]
clean_old_conversations(ch, li, sc, ac, t) ==
    [conversation_history |-> Without(ch, Expired(li, t)),
     last_interaction |-> Without(li, Expired(li, t)),
     search_cache |-> Without(sc, Expired(li, t)),
     appointment_context |-> Without(ac, Expired(li, t))]

\* get_cached_search: the result (JNull for None) and the cache after the read
CacheExpired(entry, t) == t - entry.timestamp > SEARCH_CACHE_TIMEOUT
ReadKeepingExpired(sc, user_id, search_key, t) ==
    IF ~Has(sc, user_id) THEN [result |-> JNull, search_cache |-> sc]
    ELSE IF ~Has(sc[user_id], search_key) THEN [result |-> JNull, search_cache |-> sc]
    ELSE IF CacheExpired(sc[user_id][search_key], t)
         THEN [result |-> JNull, search_cache |-> sc]
    ELSE [result |-> sc[user_id][search_key].result, search_cache |-> sc]
get_cached_search(sc, user_id, search_key, t) ==
    IF ~Has(sc, user_id) THEN [result |-> JNull, search_cache |-> sc]
    ELSE IF ~Has(sc[user_id], search_key) THEN [result |-> JNull, search_cache |-> sc]
    ELSE IF CacheExpired(sc[user_id][search_key], t)
         THEN [result |-> JNull,
               search_cache |-> [sc EXCEPT ![user_id] = Del(@, search_key)]]
    ELSE [result |-> sc[user_id][search_key].result, search_cache |-> sc]

cache_search_result(sc, user_id, search_key, result, t) ==
    LET mine == IF Has(sc, user_id) THEN sc[user_id] ELSE EmptyDict
    IN Put(sc, user_id, Put(mine, search_key, [result |-> result, timestamp |-> t]))

\* ------------------------------------------------------------- auth token
\* authorization.replace('Bearer ', '')
StripBearer(authorization) == Join(SelectSeq(authorization, LAMBDA piece : piece # "Bearer "))
\* the slot after "if authorization: set_auth_token(...)"
set_auth_token(slot, authorization) ==
    IF authorization # <<>> THEN StripBearer(authorization) ELSE slot
\* "if not token"
NoToken(token) == token = None \/ token = ""

\* ------------------------------------------------------- backend adapters
\* An adapter's outcome: the value it returns, the HTTP calls it sent and the
\* exception it raised (None when it returned).
Outcome(value, sent, exception) == [value |-> value, sent |-> sent, exception |-> exception]
BackendCall(api, token, filters) == [api |-> api, token |-> token, filters |-> filters]

get_all_services(token, reply) ==
    IF NoToken(token) THEN Outcome(JList(<<>>), <<>>, None)
    ELSE LET sent == <<BackendCall("subcategories-list", token, <<>>)>> IN
         IF reply.kind = "response" /\ reply.status = 200
         THEN Outcome(reply.body, sent, None)
         ELSE Outcome(JList(<<>>), sent, None)

\* A nearby search that raises what the backend call raised.
NearbyRaising(token, reply, latitude, longitude, user_name, tag_name) ==
    IF NoToken(token) THEN Outcome(JList(<<>>), <<>>, None)
    ELSE IF reply.kind = "response" /\ reply.status = 200
    THEN Outcome(reply.body, <<BackendCall("nearby", token, <<>>)>>, None)
    ELSE Outcome(JNull, <<BackendCall("nearby", token, <<>>)>>, "RequestException")

\* user_name and tag_name are Python strings, None when absent
get_nearby_services(token, reply, latitude, longitude, user_name, tag_name) ==
    IF NoToken(token) THEN Outcome(JList(<<>>), <<>>, None)
    ELSE LET params == <<<<"latitude", FloatStr(latitude)>>, <<"longitude", FloatStr(longitude)>>>>
                       \o (IF user_name \notin {None, ""} THEN <<<<"userName", user_name>>>> ELSE <<>>)
                       \o (IF tag_name \notin {None, ""} THEN <<<<"tagName", tag_name>>>> ELSE <<>>)
             sent == <<BackendCall("nearby", token, params)>>
         IN IF reply.kind = "response" /\ reply.status = 200
            THEN Outcome(reply.body, sent, None)
            ELSE Outcome(JList(<<>>), sent, None)

\* An adapter that asks the backend a second time when the first call fails.
AvailabilityAskedTwice(token, reply, user_id_of_person) ==
    IF NoToken(token) THEN Outcome([json |-> "dict"], <<>>, None)
    ELSE LET call == BackendCall("user-availability", token, <<<<"user", user_id_of_person>>>>) IN
         IF reply.kind = "response" /\ reply.status \in 200..399
         THEN Outcome(reply.body, <<call>>, None)
         ELSE IF reply.kind = "response" THEN Outcome(JNull, <<call, call>>, "HTTPError")
         ELSE Outcome(JNull, <<call, call>>, "ConnectionError")

get_user_availability(token, reply, user_id_of_person) ==
    IF NoToken(token) THEN Outcome([json |-> "dict"], <<>>, None)
    ELSE LET sent == <<BackendCall("user-availability", token, <<<<"user", user_id_of_person>>>>)>> IN
         IF reply.kind = "response" /\ reply.status \in 200..399
         THEN Outcome(reply.body, sent, None)
         ELSE IF reply.kind = "response" THEN Outcome(JNull, sent, "HTTPError")
         ELSE Outcome(JNull, sent, "ConnectionError")

\* task_tools.create_task: the token is looked at first, the POST follows, and
\* whatever is raised is raised again.  The dates are the day of the call and
\* the day a week later; they are left out of the payload here.
TaskPriority(tags) ==
    IF \E i \in 1..Len(tags) : tags[i] \in {"urgent", "emergency", "critical"} THEN "critical"
    ELSE IF \E i \in 1..Len(tags) : tags[i] \in {"high", "important"} THEN "high"
    ELSE IF \E i \in 1..Len(tags) : tags[i] \in {"low", "routine"} THEN "low"
    ELSE "medium"
\* A task creation that posts whatever the slot holds.
TaskPostingFirst(token, reply, title, task_type, task_details, assigned_to, tags, created_by) ==
    IF reply.kind = "response" /\ reply.status \in 200..399
    THEN Outcome(reply.body, <<BackendCall("task", token, <<>>)>>, None)
    ELSE Outcome(JNull, <<BackendCall("task", token, <<>>)>>, "HTTPError")
create_task(token, reply, title, task_type, task_details, assigned_to, tags, created_by) ==
    IF NoToken(token) THEN Outcome(JNull, <<>>, "ValueError")
    ELSE LET task_data == <<<<"title", title>>, <<"task_type", task_type>>,
                            <<"task_details", task_details>>, <<"assigned_by", created_by>>,
                            <<"assigned_to", assigned_to>>, <<"priority", TaskPriority(tags)>>,
                            <<"tags", tags>>, <<"created_by", created_by>>>>
             sent == <<BackendCall("task", token, task_data)>>
         IN IF reply.kind = "response" /\ reply.status \in 200..399
            THEN Outcome(reply.body, sent, None)
            ELSE IF reply.kind = "response" THEN Outcome(JNull, sent, "HTTPError")
            ELSE Outcome(JNull, sent, "ConnectionError")

\* s.split(c)[0] and s.split(c)[1], for a text s that holds c
RECURSIVE Before(_, _)
Before(s, c) == IF s = <<>> \/ Head(s) = c THEN <<>> ELSE <<Head(s)>> \o Before(Tail(s), c)
RECURSIVE After(_, _)
After(s, c) == IF s = <<>> THEN <<>> ELSE IF Head(s) = c THEN Tail(s) ELSE After(Tail(s), c)
Count(s, c) == Cardinality({i \in 1..Len(s) : s[i] = c})
\* the HH:MM:SS form of a time text: the time of an ISO timestamp, seconds
\* added to HH:MM, anything else as it is
NormalizeTime(time) ==
    IF Count(time, "T") > 0 THEN Before(Before(After(time, "T"), "T"), "Z")
    ELSE IF Count(time, ":") = 1 THEN time \o <<":", "0", "0">>
    ELSE time

\* appointment_tools.create_appointment: the time is normalised, the payload
\* drops its None values, the token is looked at, the POST follows.  time is a
\* text; date is a text or NoneText; duration is NoneInt when absent.
create_appointment(token, reply, target_user_id, user_availability_id, date, time, duration, reason, loggedin_user_id) ==
    IF NoToken(token) THEN Outcome(JNull, <<>>, "ValueError")
    ELSE LET payload == <<<<"target_user_id", target_user_id>>,
                          <<"user_availability_id", user_availability_id>>>>
                        \o (IF date # NoneText THEN <<<<"date", Join(date)>>>> ELSE <<>>)
                        \o <<<<"time", Join(NormalizeTime(time))>>>>
                        \o (IF duration # NoneInt THEN <<<<"duration", IntStr(duration)>>>> ELSE <<>>)
                        \o <<<<"reason", reason>>, <<"loggedin_user_id", loggedin_user_id>>,
                             <<"created_by", loggedin_user_id>>>>
             sent == <<BackendCall("appointment", token, payload)>>
         IN IF reply.kind = "response" /\ reply.status \in 200..399
            THEN Outcome(reply.body, sent, None)
            ELSE IF reply.kind = "response" THEN Outcome(JNull, sent, "HTTPError")
            ELSE Outcome(JNull, sent, "ConnectionError")

\* ------------------------------------------------------------ the inputs
Users == {"u1", "u2"}
\* The query texts requests are drawn from, by name.
QueryText ==
    [find |-> <<"f", "i", "n", "d", " ", "a", " ", "d", "o", "c", "t", "o", "r">>,
     mala |-> <<"m", "a", "l", "a", " ", "d", "o", "c", "t", "o", "r", " ",
                "p", "a", "h", "i", "j", "e">>,
     book |-> <<"b", "o", "o", "k", " ", "1", "3", "/", "6", "/", "2", "0", "2", "5", " ",
                "2", "p", "m", " ", "t", "o", " ", "3", "p", "m">>,
     punct |-> <<"?", "!">>,
     urgent |-> <<"u", "r", "g", "e", "n", "t", " ", "r", "o", "a", "d">>,
     dateonly |-> <<"b", "o", "o", "k", " ", "1", "4", "/", "6", "/", "2", "0", "2", "5">>,
     norange |-> <<"m", "e", "e", "t", " ", "1", "4", "/", "6", "/", "2", "0", "2", "5", " ",
                   "2", "p", "m", " ", "t", "o", " ", "2", "p", "m">>]
Queries == DOMAIN QueryText
\* A request of the endpoint: query, user_id, latitude, longitude, authorization.
\* authorization is a sequence of pieces, "Bearer " being one piece; the empty
\* sequence is an absent field.
Request(query, user_id, latitude, longitude, authorization) ==
    [query |-> query, user_id |-> user_id, latitude |-> latitude, longitude |-> longitude,
     authorization |-> authorization]
Requests ==
    {Request("find", "u1", <<"1">>, <<"2">>, <<"Bearer ", "t1">>),
     Request("book", "u1", <<"1", ".", "0">>, <<"2">>, <<>>),
     Request("mala", "u2", <<"1">>, <<"2">>, <<"Bearer ", "t2">>),
     Request("mala", "u2", <<"a", "b", "c">>, <<"2">>, <<>>),
     Request("find", "u1", <<"1">>, <<>>, <<>>),
     Request("punct", "u2", <<"a", "b", "c">>, <<"2">>, <<"Bearer ", "t2">>)}

\* What the LLM may answer to the analysis prompt: no usable response
\* (call_api returns None), a first part without text, or a text, given by
\* what json.loads makes of it after clean_json_response.
LLMFailure == [kind |-> "failure"]
LLMNonText == [kind |-> "functionCallPart"]
LLMText(parsed) == [kind |-> "text", parsed |-> parsed]
NotJson == [json |-> "invalid"]
FunctionCall(name, args) == [json |-> "dict", functionCall |-> [name |-> name, args |-> args]]
NearbyByTag(tag) == FunctionCall("get_nearby_services", [tagName |-> tag])
NearbyByName(name) == FunctionCall("get_nearby_services", [user_name |-> name])
AnalysisOutputs ==
    {LLMFailure, LLMText(ResponseBody("llm: answer")),
     LLMText(NearbyByTag(<<"d", "o", "c", "t", "o", "r">>))}
FormatOutputs ==
    {LLMText(ResponseBody("llm: formatted"))}
\* What the backend may answer to the call a function makes.
Replies(name) ==
    CASE name = "get_all_services" -> {HttpResponse(200, ServiceList), HttpResponse(500, JNull)}
      [] name = "get_nearby_services" ->
            {HttpResponse(200, Found), HttpResponse(500, JNull), NetworkError}
      [] name = "get_user_availability" ->
            {HttpResponse(200, Availability), HttpResponse(500, JNull), NetworkError}
      [] name = "create_task" ->
            {HttpResponse(200, Created), HttpResponse(500, JNull), NetworkError}
      [] name = "create_appointment" ->
            {HttpResponse(200, Created), HttpResponse(500, JNull), NetworkError}
      [] OTHER -> {NoReply}
RepliesTo(out) ==
    IF out.kind = "text" /\ "functionCall" \in DOMAIN out.parsed
    THEN Replies(out.parsed.functionCall.name)
    ELSE {NoReply}
\* The nearby searches of the runs that look at the search cache: two role
\* tags with one canonical form, and every way the backend may answer.
SearchOutputs ==
    {LLMText(NearbyByTag(<<"d", "o", "c", "t", "o", "r">>)),
     LLMText(NearbyByTag(<<"D", "o", "c", "t", "o", "r", "s">>))}
SearchReplies ==
    {HttpResponse(200, Found), HttpResponse(200, EmptyList), HttpResponse(500, JNull),
     NetworkError}
\* The runs that look at the five functions: one user, with and without a
\* credential, and an analysis that asks for each function and for one the
\* service does not have.
ToolRequests ==
    {Request("find", "u1", <<"1">>, <<"2">>, <<"Bearer ", "t1">>),
     Request("book", "u1", <<"1", ".", "0">>, <<"2">>, <<>>)}
\* The runs that look at the task a request creates: a search, then a
\* request whose text holds an urgency word.
TaskRequests ==
    {Request("find", "u1", <<"1">>, <<"2">>, <<"Bearer ", "t1">>),
     Request("urgent", "u1", <<"1">>, <<"2">>, <<"Bearer ", "t1">>)}
TaskOutputs ==
    {LLMText(NearbyByTag(<<"d", "o", "c", "t", "o", "r">>)),
     LLMText(FunctionCall("create_task", [title |-> <<"f", "i", "x">>]))}
\* The runs that look at the pending-appointment fields: those requests, and
\* two whose text gives a date alone and a range of no length.
AppointmentRequests ==
    ToolRequests \cup {Request("dateonly", "u1", <<"1">>, <<"2">>, <<>>),
                       Request("norange", "u1", <<"1">>, <<"2">>, <<>>)}
\* An appointment asked for with a date, time and duration of the model's own.
BookVisit ==
    LLMText(FunctionCall("create_appointment",
                         [target_user_id |-> <<"p1">>, user_availability_id |-> <<"a1">>,
                          reason |-> <<"v", "i", "s", "i", "t">>,
                          date |-> <<"2", "0", "2", "5", "-", "0", "1", "-", "0", "2">>,
                          time |-> <<"0", "9", ":", "3", "0">>,
                          duration |-> <<"4", "5">>]))
\* A JSON object whose "response" is an object without a message.
NoMessage == [json |-> "dict", response |-> [profile |-> None]]
\* The runs that look at the pending-appointment fields: the analysis asks
\* for an appointment or answers by itself, with a message or without one.
AppointmentOutputs == {BookVisit, LLMText(ResponseBody("llm: answer")), LLMText(NoMessage)}
ToolOutputs ==
    {LLMText(FunctionCall("get_all_services", EmptyDict)),
     LLMText(FunctionCall("get_nearby_services",
                          [user_name |-> <<"r", "a", "m">>,
                           tagName |-> <<"d", "o", "c", "t", "o", "r">>])),
     LLMText(FunctionCall("get_user_availability", [user_id_of_person |-> <<"p1">>])),
     LLMText(FunctionCall("create_task", [title |-> <<"f", "i", "x">>])),
     BookVisit,
     LLMText(FunctionCall("send_email", EmptyDict))}
\* The runs that count the calls of a request: every function the analysis
\* may ask for, a direct answer, and an analysis output that cannot be used.
CallRequests == {Request("find", "u1", <<"1">>, <<"2">>, <<"Bearer ", "t1">>)}
CallOutputs ==
    {out \in ToolOutputs : Replies(out.parsed.functionCall.name) # {NoReply}}
        \cup {LLMNonText, LLMText(NotJson), LLMText(ResponseBody("llm: answer"))}
\* The runs that look at the two LLM calls: every way either may come back.
LLMRequests ==
    {Request("find", "u1", <<"1">>, <<"2">>, <<"Bearer ", "t1">>),
     Request("mala", "u2", <<"1">>, <<"2">>, <<"Bearer ", "t2">>)}
\* The runs that compare a request with the same request in the other
\* language: an English and a Marathi request, and one whose coordinates do
\* not parse.
LanguageRequests == LLMRequests \cup {Request("mala", "u2", <<"a", "b", "c">>, <<"2">>, <<>>)}
LLMOutputs ==
    {LLMFailure, LLMNonText, LLMText(NotJson), LLMText(ResponseBody("llm: answer")),
     LLMText(NearbyByTag(<<"d", "o", "c", "t", "o", "r">>))}
LLMFormatOutputs ==
    {LLMFailure, LLMNonText, LLMText(NotJson), LLMText(ResponseBody("llm: formatted"))}

\* ------------------------------------------------------------- the state
VARIABLES
    conversation_history,   \* user_id -> the turns, oldest first
    last_interaction,       \* user_id -> time of the last processed request
    search_cache,           \* user_id -> search_key -> [result, timestamp]
    appointment_context,    \* user_id -> the pending date, time and duration
    auth_token,             \* _auth_token of service_tools: the process-wide slot
    now,                    \* the wall clock, in minutes
    pc,                     \* slot -> where the handler instance stands
    req,                    \* slot -> the request being (or last) processed, with the
                            \*         users its sweep removed
    sent,                   \* slot -> the outbound calls of that request, in order
    resp,                   \* slot -> what that request returned
    requests                \* requests accepted so far

vars == <<conversation_history, last_interaction, search_cache, appointment_context,
          auth_token, now, pc, req, sent, resp, requests>>

Slots == 1..MaxInFlight
NoRequest == [query |-> None, user_id |-> None, authorization |-> <<>>, valid |-> FALSE,
              lang |-> None, lat |-> 0, lon |-> 0, swept |-> {}]
LLMCall(prompt) == [api |-> "llm", token |-> None, filters |-> <<prompt>>]

Init ==
    /\ conversation_history = EmptyDict
    /\ last_interaction = EmptyDict
    /\ search_cache = EmptyDict
    /\ appointment_context = EmptyDict
    /\ auth_token = None
    /\ now = 0
    /\ pc = [r \in Slots |-> "idle"]
    /\ req = [r \in Slots |-> NoRequest]
    /\ sent = [r \in Slots |-> <<>>]
    /\ resp = [r \in Slots |-> NoResponse]
    /\ requests = 0

\* ---------------------------------------------------------------- turns
UserTurn(query) == [role |-> "user", part |-> "text", query |-> query]
ModelTurn(ai_response) == [role |-> "model", part |-> "text", dumped |-> ai_response]
CallTurn(function_call) == [role |-> "model", part |-> "functionCall", functionCall |-> function_call]
ResultTurn(name, response) ==
    [role |-> "function", part |-> "functionResponse", name |-> name, response |-> response]

\* ------------------------------------------------------------ scheduling
\* search is a coroutine without an await: its LLM and backend calls are
\* blocking calls, so an instance that has started keeps the event loop until
\* it returns, and no position of the handler is a suspension point.
SuspendsAtCalls(position) == position \in {"analysis", "format"}
SuspendsAt(position) == FALSE
LoopFree == \A r \in Slots : pc[r] = "idle" \/ SuspendsAt(pc[r])
\* The lowest idle slot takes the next request.
NextSlot(r) == pc[r] = "idle" /\ \A other \in Slots : other < r => pc[other] # "idle"

\* "any(word in query.lower() for word in [...])"
SchedulingWords ==
    {<<"a", "p", "p", "o", "i", "n", "t", "m", "e", "n", "t">>,
     <<"s", "c", "h", "e", "d", "u", "l", "e">>, <<"b", "o", "o", "k">>,
     <<"m", "e", "e", "t">>, <<"m", "e", "e", "t", "i", "n", "g">>}
IsAppointmentQuery(text) == \E word \in SchedulingWords : Contains(Lower(text), word)
\* The language, the scheduling test and the parse of each query, computed once.
LangOf == [q \in Queries |-> detect_language(QueryText[q])]
AppointmentQuery == [q \in Queries |-> IsAppointmentQuery(QueryText[q])]
ParsedOf == [q \in Queries |-> parse_date_time(QueryText[q])]
\* A look at the query that keeps whatever was parsed once a date was found.
PreParseAnyDate(ac, user_id, query) ==
    IF ~AppointmentQuery[query] THEN ac
    ELSE IF ParsedOf[query].date # NoneText THEN Put(ac, user_id, ParsedOf[query])
    ELSE ac
\* lines 370-382: the pending fields after the query was looked at
PreParse(ac, user_id, query) ==
    IF ~AppointmentQuery[query] THEN ac
    ELSE LET parsed == ParsedOf[query] IN
         IF /\ parsed.date # NoneText /\ parsed.date # <<>>
            /\ parsed.time # NoneText /\ parsed.time # <<>>
            /\ parsed.duration # NoneInt /\ parsed.duration # 0
         THEN Put(ac, user_id, parsed)
         ELSE ac

\* ------------------------------------------------------------ the handler
\* search, lines 326-666: from the request's arrival to the analysis call.
Start(r, query, user_id, latitude, longitude, authorization) ==
    /\ requests < MaxRequests
    /\ NextSlot(r)
    /\ LoopFree
    /\ LET swept == clean_old_conversations(conversation_history, last_interaction,
                                            search_cache, appointment_context, now)
           current_lang == LangOf[query]
           lat == ParseFloat(latitude)
           lon == ParseFloat(longitude)
           request == [query |-> query, user_id |-> user_id, authorization |-> authorization,
                       valid |-> lat.ok /\ lon.ok, lang |-> current_lang,
                       lat |-> lat.value, lon |-> lon.value,
                       swept |-> Expired(last_interaction, now)]
       IN /\ auth_token' = set_auth_token(auth_token, authorization)
          /\ requests' = requests + 1
          /\ req' = [req EXCEPT ![r] = request]
          /\ IF current_lang = ZeroDivisionError \/ ~(lat.ok /\ lon.ok)
             THEN /\ conversation_history' = swept.conversation_history
                  /\ last_interaction' = swept.last_interaction
                  /\ search_cache' = swept.search_cache
                  /\ appointment_context' = swept.appointment_context
                  /\ sent' = [sent EXCEPT ![r] = <<>>]
                  /\ resp' = [resp EXCEPT ![r] =
                                 IF current_lang = ZeroDivisionError
                                 THEN Raised(ZeroDivisionError)
                                 ELSE Returned(get_location_error(current_lang))]
                  /\ pc' = pc
             ELSE /\ conversation_history' =
                         IF Has(swept.conversation_history, user_id)
                         THEN swept.conversation_history
                         ELSE Put(swept.conversation_history, user_id, <<>>)
                  /\ last_interaction' = Put(swept.last_interaction, user_id, now)
                  /\ search_cache' = swept.search_cache
                  /\ appointment_context' = PreParse(swept.appointment_context, user_id, query)
                  /\ sent' = [sent EXCEPT ![r] = <<LLMCall("analysis")>>]
                  /\ resp' = [resp EXCEPT ![r] = NoResponse]
                  /\ pc' = [pc EXCEPT ![r] = "analysis"]
    /\ now' = now

\* f"{function_args.get('user_name', '')}_{function_args.get('tagName', '')}_{lat}_{lon}"
ArgStr(function_args, key) == IF Has(function_args, key) THEN Join(function_args[key]) ELSE ""
SearchKey(function_args, lat, lon) ==
    ArgStr(function_args, "user_name") \o "_" \o ArgStr(function_args, "tagName")
        \o "_" \o FloatStr(lat) \o "_" \o FloatStr(lon)
\* function_args.get(key) as the Python string handed to an adapter
ArgOrNone(function_args, key) == IF Has(function_args, key) THEN Join(function_args[key]) ELSE None

\* What a dispatched function leaves: the function_response, the arguments as
\* the call left them, the cache and pending fields, the backend calls sent,
\* and the exception that left the handler (None when none did).
Dispatched(function_response, function_args, sc, ac, calls, exception) ==
    [function_response |-> function_response, function_args |-> function_args,
     search_cache |-> sc, appointment_context |-> ac, sent |-> calls, exception |-> exception]

\* A search that hands the role tag to the backend for English requests only.
NearbyTaggedInEnglish(request, function_args, reply) ==
    LET search_key == SearchKey(function_args, request.lat, request.lon)
        read == get_cached_search(search_cache, request.user_id, search_key, now)
    IN IF Truthy(read.result)
       THEN Dispatched(JObject("nearby_services", read.result), function_args,
                       read.search_cache, appointment_context, <<>>, None)
       ELSE LET located == Put(Put(function_args, "latitude", request.lat),
                               "longitude", request.lon)
                args == IF Has(located, "tagName")
                        THEN Put(located, "tagName", normalize_tag_name(located["tagName"]))
                        ELSE located
                out == get_nearby_services(auth_token, reply, request.lat, request.lon,
                                           ArgOrNone(args, "user_name"),
                                           IF request.lang = "mr" THEN None
                                           ELSE ArgOrNone(args, "tagName"))
            IN Dispatched(JObject("nearby_services", out.value), args,
                          cache_search_result(read.search_cache, request.user_id, search_key,
                                              out.value, now),
                          appointment_context, out.sent, out.exception)

\* lines 700-727
DispatchNearby(request, function_args, reply) ==
    LET search_key == SearchKey(function_args, request.lat, request.lon)
        read == get_cached_search(search_cache, request.user_id, search_key, now)
    IN IF Truthy(read.result)
       THEN Dispatched(JObject("nearby_services", read.result), function_args,
                       read.search_cache, appointment_context, <<>>, None)
       ELSE LET located == Put(Put(function_args, "latitude", request.lat),
                               "longitude", request.lon)
                args == IF Has(located, "tagName")
                        THEN Put(located, "tagName", normalize_tag_name(located["tagName"]))
                        ELSE located
                out == get_nearby_services(auth_token, reply, request.lat, request.lon,
                                           ArgOrNone(args, "user_name"),
                                           ArgOrNone(args, "tagName"))
            IN Dispatched(JObject("nearby_services", out.value), args,
                          cache_search_result(read.search_cache, request.user_id, search_key,
                                              out.value, now),
                          appointment_context, out.sent, out.exception)

\* function_args.get(key, default) as a Python string
ArgOr(function_args, key, default) ==
    IF Has(function_args, key) THEN Join(function_args[key]) ELSE default

\* lines 736-744: the newest function turn whose nearby_services result holds
\* a user; subscripting a result that is not a dict, or a dict without the
\* key, raises.
NoPerson == [found |-> FALSE, person |-> Person, exception |-> None]
RECURSIVE LastPerson(_, _)
LastPerson(history, i) ==
    IF i = 0 THEN NoPerson
    ELSE IF history[i].role # "function" THEN LastPerson(history, i - 1)
    ELSE IF ~("key" \in DOMAIN history[i].response
              /\ history[i].response.key = "nearby_services")
    THEN LastPerson(history, i - 1)
    ELSE IF history[i].response.value.json # "dict"
    THEN [found |-> FALSE, person |-> Person, exception |-> "TypeError"]
    ELSE IF "success" \notin DOMAIN history[i].response.value
    THEN [found |-> FALSE, person |-> Person, exception |-> "KeyError"]
    ELSE IF ~history[i].response.value.success THEN LastPerson(history, i - 1)
    ELSE IF "data" \notin DOMAIN history[i].response.value
    THEN [found |-> FALSE, person |-> Person, exception |-> "KeyError"]
    ELSE IF history[i].response.value.data.users = <<>> THEN LastPerson(history, i - 1)
    ELSE [found |-> TRUE, person |-> history[i].response.value.data.users[1],
          exception |-> None]

\* lines 762-783: what the user turns say about the task
TaskWords == {<<"r", "o", "a", "d">>, <<"b", "a", "d">>,
              <<"m", "a", "i", "n", "t", "e", "n", "a", "n", "c", "e">>}
HighWords == {<<"h", "i", "g", "h">>, <<"u", "r", "g", "e", "n", "t">>,
              <<"v", "e", "r", "y", " ", "b", "a", "d">>}
AboutTask == [q \in Queries |-> \E w \in TaskWords : Contains(Lower(QueryText[q]), w)]
PriorityOf ==
    [q \in Queries |->
        IF \E w \in HighWords : Contains(Lower(QueryText[q]), w) THEN "high"
        ELSE IF Contains(Lower(QueryText[q]), <<"l", "o", "w">>) THEN "low"
        ELSE None]
\* the relevant user texts, newest first, three at most
RECURSIVE TaskDetails(_, _, _)
TaskDetails(history, i, found) ==
    IF i = 0 \/ Len(found) >= 3 THEN found
    ELSE IF history[i].role = "user" /\ AboutTask[history[i].query]
    THEN TaskDetails(history, i - 1, Append(found, history[i].query))
    ELSE TaskDetails(history, i - 1, found)
RECURSIVE Priority(_, _)
Priority(history, i) ==
    IF i = 0 THEN "medium"
    ELSE IF history[i].role = "user" /\ PriorityOf[history[i].query] # None
    THEN PriorityOf[history[i].query]
    ELSE Priority(history, i - 1)

\* lines 734-830
DispatchTask(request, function_args, reply) ==
    IF ~Has(conversation_history, request.user_id)
    THEN Dispatched(JNull, function_args, search_cache, appointment_context, <<>>, "KeyError")
    ELSE LET history == conversation_history[request.user_id]
             last == LastPerson(history, Len(history))
         IN IF last.exception # None
            THEN Dispatched(JNull, function_args, search_cache, appointment_context,
                            <<>>, last.exception)
            ELSE IF ~last.found
            \* ai_response is the person-not-found message, function_response was
            \* never bound: line 873 reads it
            THEN Dispatched(JNull, function_args, search_cache, appointment_context,
                            <<>>, "UnboundLocalError")
            ELSE LET out == create_task(auth_token, reply,
                                        ArgOr(function_args, "title", "Road Maintenance Task"),
                                        ArgOr(function_args, "task_type", "maintenance"),
                                        TaskDetails(history, Len(history), <<>>),
                                        last.person.user_id,
                                        <<"maintenance", "roads", Priority(history, Len(history))>>,
                                        request.user_id)
                 IN IF out.exception = None /\ out.value.json # "dict"
                    THEN Dispatched(out.value, function_args, search_cache,
                                    appointment_context, out.sent, "AttributeError")
                    ELSE Dispatched(out.value, function_args, search_cache,
                                    appointment_context, out.sent, out.exception)

\* Pending fields that were not emptied.
FilledContext == [date |-> <<"2", "0", "2", "5">>, time |-> <<"1", "4">>, duration |-> 60]
\* appointment_context[user_id] = {}: every .get() of it gives None
EmptyContext == [date |-> NoneText, time |-> NoneText, duration |-> NoneInt]
\* A lookup that takes the model's argument whenever there is one.
ArgumentFirst(value, function_args, key) ==
    IF Has(function_args, key) THEN function_args[key] ELSE value
\* context.get(key) or function_args.get(key), for a text
TextOr(value, function_args, key) ==
    IF value # NoneText /\ value # <<>> THEN value
    ELSE IF Has(function_args, key) THEN function_args[key]
    ELSE NoneText
IntOr(value, function_args, key) ==
    IF value # NoneInt /\ value # 0 THEN value
    ELSE IF Has(function_args, key) THEN IntOf(function_args[key])
    ELSE NoneInt

\* lines 831-868
DispatchAppointment(request, function_args, reply) ==
    LET user_id == request.user_id
        context == Get(appointment_context, user_id, EmptyContext)
        time == TextOr(context.time, function_args, "time")
        date == TextOr(context.date, function_args, "date")
        duration == IntOr(context.duration, function_args, "duration")
    IN IF time = NoneText
       THEN Dispatched(JNull, function_args, search_cache, appointment_context,
                       <<>>, "TypeError")
       ELSE IF ~(Has(function_args, "target_user_id")
                 /\ Has(function_args, "user_availability_id")
                 /\ Has(function_args, "reason"))
       THEN Dispatched(JNull, function_args, search_cache, appointment_context,
                       <<>>, "KeyError")
       ELSE LET out == create_appointment(auth_token, reply,
                                          Join(function_args["target_user_id"]),
                                          Join(function_args["user_availability_id"]),
                                          date, NormalizeTime(time), duration,
                                          Join(function_args["reason"]), user_id)
            IN IF out.exception # None
               THEN Dispatched(out.value, function_args, search_cache, appointment_context,
                               out.sent, out.exception)
               ELSE IF out.value.json # "dict"
               THEN Dispatched(out.value, function_args, search_cache, appointment_context,
                               out.sent, "AttributeError")
               ELSE IF "success" \in DOMAIN out.value /\ out.value.success
               THEN Dispatched(out.value, function_args, search_cache,
                               Put(appointment_context, user_id, EmptyContext),
                               out.sent, None)
               ELSE Dispatched(out.value, function_args, search_cache, appointment_context,
                               out.sent, None)

\* lines 697-870: the function call's branch
Dispatch(request, function_call, reply) ==
    LET function_name == function_call.name
        function_args == function_call.args
    IN CASE function_name = "get_all_services" ->
              LET out == get_all_services(auth_token, reply)
              IN Dispatched(JObject("services", out.value), function_args,
                            search_cache, appointment_context, out.sent, None)
         [] function_name = "get_nearby_services" ->
              DispatchNearby(request, function_args, reply)
         [] function_name = "get_user_availability" ->
              IF ~Has(function_args, "user_id_of_person")
              THEN Dispatched(JNull, function_args, search_cache, appointment_context,
                              <<>>, "KeyError")
              ELSE LET out == get_user_availability(auth_token, reply,
                                                    function_args["user_id_of_person"])
                   IN Dispatched(JObject("user_availability", out.value), function_args,
                                 search_cache, appointment_context, out.sent, out.exception)
         [] function_name = "create_task" ->
              DispatchTask(request, function_args, reply)
         [] function_name = "create_appointment" ->
              DispatchAppointment(request, function_args, reply)
         [] OTHER ->
              Dispatched(JObject("error", "Unknown function"), function_args,
                         search_cache, appointment_context, <<>>, None)

\* A return that leaves the history as it was.
ReturnsWithoutAppending(r, ai_response) ==
    /\ conversation_history' = conversation_history
    /\ resp' = [resp EXCEPT ![r] = Returned(ai_response)]

\* A return that keeps the final response as the user's whole history.
PersistLatestOnly(r, ai_response) ==
    /\ conversation_history' =
           Put(conversation_history, req[r].user_id, <<ModelTurn(ai_response)>>)
    /\ resp' = [resp EXCEPT ![r] = Returned(ai_response)]

\* lines 1092-1103: the final response is appended and returned
Persist(r, ai_response) ==
    LET user_id == req[r].user_id IN
    IF ~Has(conversation_history, user_id)
    THEN /\ conversation_history' = conversation_history
         /\ resp' = [resp EXCEPT ![r] = Raised("KeyError")]
    ELSE /\ conversation_history' =
                [conversation_history EXCEPT ![user_id] = Append(@, ModelTurn(ai_response))]
         /\ resp' = [resp EXCEPT ![r] = Returned(ai_response)]

\* search, lines 662-961: the analysis response arrives; a function call is
\* dispatched up to the formatting call, anything else up to the return.
Analyze(r, out, reply) ==
    /\ pc[r] = "analysis"
    /\ LET request == req[r]
           user_id == request.user_id
           default_response == get_default_response(request.lang)
       IN IF out.kind = "failure"
          THEN /\ resp' = [resp EXCEPT ![r] = Returned(default_response)]
               /\ pc' = [pc EXCEPT ![r] = "idle"]
               /\ UNCHANGED <<conversation_history, search_cache, appointment_context, sent>>
          ELSE IF out.kind = "text" /\ "functionCall" \in DOMAIN out.parsed
          THEN LET function_call == out.parsed.functionCall
                   done == Dispatch(request, function_call, reply)
                   recorded == [name |-> function_call.name, args |-> done.function_args]
               IN /\ search_cache' = done.search_cache
                  /\ appointment_context' = done.appointment_context
                  /\ IF done.exception # None
                     THEN /\ resp' = [resp EXCEPT ![r] = Raised(done.exception)]
                          /\ sent' = [sent EXCEPT ![r] = @ \o done.sent]
                          /\ pc' = [pc EXCEPT ![r] = "idle"]
                          /\ UNCHANGED conversation_history
                     ELSE IF ~Has(conversation_history, user_id)
                     THEN /\ resp' = [resp EXCEPT ![r] = Raised("KeyError")]
                          /\ sent' = [sent EXCEPT ![r] = @ \o done.sent]
                          /\ pc' = [pc EXCEPT ![r] = "idle"]
                          /\ UNCHANGED conversation_history
                     ELSE /\ conversation_history' =
                                 [conversation_history EXCEPT ![user_id] =
                                     @ \o <<UserTurn(request.query), CallTurn(recorded),
                                            ResultTurn(function_call.name, done.function_response)>>]
                          /\ sent' = [sent EXCEPT ![r] = @ \o done.sent \o <<LLMCall("format")>>]
                          /\ pc' = [pc EXCEPT ![r] = "format"]
                          /\ UNCHANGED resp
          ELSE /\ Persist(r, IF out.kind = "text" /\ out.parsed.json = "dict"
                                   /\ "response" \in DOMAIN out.parsed
                                THEN out.parsed
                                ELSE default_response)
               /\ pc' = [pc EXCEPT ![r] = "idle"]
               /\ UNCHANGED <<search_cache, appointment_context, sent>>
    /\ UNCHANGED <<last_interaction, auth_token, now, req, requests>>

\* lines 967-1052: what the formatting response is taken for
Formatted(out, default_response) ==
    IF /\ out.kind = "text"
       /\ out.parsed.json = "dict"
       /\ "response" \in DOMAIN out.parsed
       /\ "message" \in DOMAIN out.parsed.response
    THEN out.parsed
    ELSE default_response

\* search, lines 957-1103: the formatting response arrives
Format(r, out) ==
    /\ pc[r] = "format"
    /\ Persist(r, Formatted(out, get_default_response(req[r].lang)))
    /\ pc' = [pc EXCEPT ![r] = "idle"]
    /\ UNCHANGED <<last_interaction, search_cache, appointment_context, auth_token, now,
                   req, sent, requests>>

\* A minute passes.
Tick ==
    /\ now < MaxTime
    /\ now' = now + 1
    /\ UNCHANGED <<conversation_history, last_interaction, search_cache, appointment_context,
                   auth_token, pc, req, sent, resp, requests>>

Next ==
    \/ \E r \in Slots, q \in Requests :
          Start(r, q.query, q.user_id, q.latitude, q.longitude, q.authorization)
    \/ \E r \in Slots, out \in AnalysisOutputs : \E reply \in RepliesTo(out) :
          Analyze(r, out, reply)
    \/ \E r \in Slots, out \in FormatOutputs : Format(r, out)
    \/ Tick

Spec == Init /\ [][Next]_vars

\* The service when every analysis output is a nearby search.
NextSearch ==
    \/ \E r \in Slots, q \in Requests :
          Start(r, q.query, q.user_id, q.latitude, q.longitude, q.authorization)
    \/ \E r \in Slots, out \in SearchOutputs, reply \in SearchReplies :
          Analyze(r, out, reply)
    \/ \E r \in Slots, out \in FormatOutputs : Format(r, out)
    \/ Tick

SpecSearch == Init /\ [][NextSearch]_vars

\* The service when every analysis output asks for a function.
NextTools ==
    \/ \E r \in Slots, q \in ToolRequests :
          Start(r, q.query, q.user_id, q.latitude, q.longitude, q.authorization)
    \/ \E r \in Slots, out \in ToolOutputs : \E reply \in RepliesTo(out) :
          Analyze(r, out, reply)
    \/ \E r \in Slots, out \in FormatOutputs : Format(r, out)
    \/ Tick

SpecTools == Init /\ [][NextTools]_vars

\* The service when the analysis asks for an appointment or answers by itself.
NextAppointment ==
    \/ \E r \in Slots, q \in AppointmentRequests :
          Start(r, q.query, q.user_id, q.latitude, q.longitude, q.authorization)
    \/ \E r \in Slots, out \in AppointmentOutputs : \E reply \in RepliesTo(out) :
          Analyze(r, out, reply)
    \/ \E r \in Slots, out \in FormatOutputs : Format(r, out)
    \/ Tick

SpecAppointment == Init /\ [][NextAppointment]_vars

\* The service when the analysis asks for a search or for a task.
NextTask ==
    \/ \E r \in Slots, q \in TaskRequests :
          Start(r, q.query, q.user_id, q.latitude, q.longitude, q.authorization)
    \/ \E r \in Slots, out \in TaskOutputs : \E reply \in RepliesTo(out) :
          Analyze(r, out, reply)
    \/ \E r \in Slots, out \in FormatOutputs : Format(r, out)
    \/ Tick

SpecTask == Init /\ [][NextTask]_vars

\* The service when the analysis may ask for any function or for none.
NextCalls ==
    \/ \E r \in Slots, q \in CallRequests :
          Start(r, q.query, q.user_id, q.latitude, q.longitude, q.authorization)
    \/ \E r \in Slots, out \in CallOutputs : \E reply \in RepliesTo(out) :
          Analyze(r, out, reply)
    \/ \E r \in Slots, out \in FormatOutputs : Format(r, out)
    \/ Tick

SpecCalls == Init /\ [][NextCalls]_vars

\* The service for requests in both languages.
NextLanguage ==
    \/ \E r \in Slots, q \in LanguageRequests :
          Start(r, q.query, q.user_id, q.latitude, q.longitude, q.authorization)
    \/ \E r \in Slots, out \in AnalysisOutputs : \E reply \in RepliesTo(out) :
          Analyze(r, out, reply)
    \/ \E r \in Slots, out \in FormatOutputs : Format(r, out)
    \/ Tick

SpecLanguage == Init /\ [][NextLanguage]_vars

\* The service when either LLM call may fail or come back unusable.
NextLLM ==
    \/ \E r \in Slots, q \in LLMRequests :
          Start(r, q.query, q.user_id, q.latitude, q.longitude, q.authorization)
    \/ \E r \in Slots, out \in LLMOutputs : \E reply \in RepliesTo(out) :
          Analyze(r, out, reply)
    \/ \E r \in Slots, out \in LLMFormatOutputs : Format(r, out)
    \/ Tick

SpecLLM == Init /\ [][NextLLM]_vars

\* ------------------------------------------------------ the cache harness
\* The two cache functions applied on their own to the cache of one live
\* session, over a clock that runs past SEARCH_CACHE_TIMEOUT.  A session
\* stays alive that long only through requests at most CONVERSATION_TIMEOUT
\* apart, so each operation touches last_interaction as the request around it
\* does (line 358), and the clock waits for one when the session is about to
\* expire.
CacheUser == "u1"
CacheKeys ==
    {SearchKey(out.parsed.functionCall.args, 10, 20) : out \in SearchOutputs}
\* What a read reports: the key, whether an entry was found under it, and the
\* value get_cached_search returned.
CacheReadReport(search_key, found, result) ==
    [status |-> 0,
     body |-> [json |-> "cache_read", search_key |-> search_key, found |-> found,
               result |-> result]]

InitCache ==
    /\ conversation_history = [user_id \in {CacheUser} |-> <<>>]
    /\ last_interaction = [user_id \in {CacheUser} |-> 0]
    /\ search_cache = EmptyDict
    /\ appointment_context = EmptyDict
    /\ auth_token = None
    /\ now = 0
    /\ pc = [r \in Slots |-> "idle"]
    /\ req = [r \in Slots |-> NoRequest]
    /\ sent = [r \in Slots |-> <<>>]
    /\ resp = [r \in Slots |-> NoResponse]
    /\ requests = 0

CacheWrite(user_id, search_key, result) ==
    /\ search_cache' = cache_search_result(search_cache, user_id, search_key, result, now)
    /\ last_interaction' = Put(last_interaction, user_id, now)
    /\ UNCHANGED <<conversation_history, appointment_context, auth_token, now, pc, req, sent,
                   resp, requests>>

CacheRead(user_id, search_key) ==
    /\ LET read == get_cached_search(search_cache, user_id, search_key, now)
           found == Has(search_cache, user_id) /\ Has(search_cache[user_id], search_key)
       IN /\ search_cache' = read.search_cache
          /\ resp' = [resp EXCEPT ![1] = CacheReadReport(search_key, found, read.result)]
    /\ last_interaction' = Put(last_interaction, user_id, now)
    /\ UNCHANGED <<conversation_history, appointment_context, auth_token, now, pc, req, sent,
                   requests>>

CacheTick ==
    /\ now < MaxCacheTime
    /\ \A user_id \in DOMAIN last_interaction :
          now + 1 - last_interaction[user_id] <= CONVERSATION_TIMEOUT
    /\ now' = now + 1
    /\ UNCHANGED <<conversation_history, last_interaction, search_cache, appointment_context,
                   auth_token, pc, req, sent, resp, requests>>

NextCache ==
    \/ \E search_key \in CacheKeys : CacheWrite(CacheUser, search_key, Found)
    \/ \E search_key \in CacheKeys : CacheRead(CacheUser, search_key)
    \/ CacheTick

SpecCache == InitCache /\ [][NextCache]_vars

\* ---------------------------------------------------- the adapter harness
\* The five backend adapters applied on their own to the process-wide token
\* slot: the slot is set as a request's header sets it, an adapter is called,
\* and what it sent and how it ended is reported.
Adapters == {"get_all_services", "get_nearby_services", "get_user_availability",
             "create_task", "create_appointment"}
Authorizations == {<<>>, <<"Bearer ">>, <<"Bearer ", "t1">>}
AdapterReplies == {HttpResponse(200, Created), HttpResponse(500, JNull), NetworkError}
AdapterOutcome(name, token, reply) ==
    CASE name = "get_all_services" -> get_all_services(token, reply)
      [] name = "get_nearby_services" -> get_nearby_services(token, reply, 10, 20, None, "doctor")
      [] name = "get_user_availability" -> get_user_availability(token, reply, <<"p1">>)
      [] name = "create_task" ->
            create_task(token, reply, "fix", "maintenance", <<>>, "p1",
                        <<"maintenance", "roads", "medium">>, "u1")
      [] name = "create_appointment" ->
            create_appointment(token, reply, "p1", "a1", NoneText, <<"1", "4", ":", "0", "0">>,
                               NoneInt, "visit", "u1")
\* What a call reports: the adapter, the token it found in the slot, the value
\* it returned and the exception it raised.
AdapterReport(name, token, out) ==
    [status |-> 0,
     body |-> [json |-> "adapter", name |-> name, token |-> token, value |-> out.value,
               exception |-> out.exception]]

SetToken(authorization) ==
    /\ auth_token' = set_auth_token(auth_token, authorization)
    /\ UNCHANGED <<conversation_history, last_interaction, search_cache, appointment_context,
                   now, pc, req, sent, resp, requests>>

AdapterCall(name, reply) ==
    /\ requests < MaxRequests
    /\ requests' = requests + 1
    /\ LET out == AdapterOutcome(name, auth_token, reply)
       IN /\ sent' = [sent EXCEPT ![1] = out.sent]
          /\ resp' = [resp EXCEPT ![1] = AdapterReport(name, auth_token, out)]
    /\ UNCHANGED <<conversation_history, last_interaction, search_cache, appointment_context,
                   auth_token, now, pc, req>>

NextAdapters ==
    \/ \E authorization \in Authorizations : SetToken(authorization)
    \/ \E name \in Adapters, reply \in AdapterReplies : AdapterCall(name, reply)

SpecAdapters == Init /\ [][NextAdapters]_vars

\* --------------------------------------------------------- the LLM client
\* GeminiService.call_api, attempt by attempt.  The session's adapter is
\* mounted with Retry(total=3, backoff_factor=1, status_forcelist=[500, 502,
\* 503, 504]); no allowed_methods is passed, so the Retry keeps its default
\* set of methods, which POST is not in.
RETRY_TOTAL == 3
STATUS_FORCELIST == {500, 502, 503, 504}
AllowedMethods == {"HEAD", "GET", "PUT", "DELETE", "OPTIONS", "TRACE"}
\* Retry.is_retry: a status is retried for a retryable method only
IsRetry(method, status) == method \in AllowedMethods /\ status \in STATUS_FORCELIST
\* What one attempt may meet: an answer with its status, a connection that
\* could not be opened, or a request that was sent and never answered in time.
ConnectError == [kind |-> "connect_error", status |-> 0, body |-> JNull]
ReadError == [kind |-> "read_error", status |-> 0, body |-> JNull]
ClientOutcomes ==
    {HttpResponse(status, JNull) : status \in STATUS_FORCELIST \cup {400, 404}}
        \cup {HttpResponse(200, ResponseBody("llm: answer")), ConnectError, ReadError}
\* The attempt as it is seen on the wire.
AttemptOf(outcome) ==
    [api |-> "llm", token |-> None,
     filters |-> <<IF outcome.kind = "response" THEN IntStr(outcome.status) ELSE outcome.kind>>]
\* What call_api returned: a decoded body, or None.
ClientReturn(value) == [status |-> 0, body |-> [json |-> "call_api", value |-> value]]
\* The adapter tries again: the connection failed, or the status is one to
\* retry for this method, and the retries are not used up.
TriesAgain(method, outcome, retries) ==
    /\ retries < RETRY_TOTAL
    /\ \/ outcome.kind = "connect_error"
       \/ outcome.kind = "response" /\ IsRetry(method, outcome.status)
\* lines 38-50: the value of the call when the adapter has given up or got an
\* answer it does not retry
ReturnOf(outcome) ==
    IF outcome.kind = "response" /\ outcome.status \in 200..399 THEN outcome.body ELSE JNull

ClientStart ==
    /\ pc[1] = "idle"
    /\ requests < MaxRequests
    /\ requests' = requests + 1
    /\ pc' = [pc EXCEPT ![1] = "call_api"]
    /\ sent' = [sent EXCEPT ![1] = <<>>]
    /\ resp' = [resp EXCEPT ![1] = NoResponse]
    /\ UNCHANGED <<conversation_history, last_interaction, search_cache, appointment_context,
                   auth_token, now, req>>

ClientAttempt(outcome) ==
    /\ pc[1] = "call_api"
    /\ sent' = [sent EXCEPT ![1] = Append(@, AttemptOf(outcome))]
    /\ IF TriesAgain("POST", outcome, Len(sent[1]))
       THEN UNCHANGED <<pc, resp>>
       ELSE /\ pc' = [pc EXCEPT ![1] = "idle"]
            /\ resp' = [resp EXCEPT ![1] = ClientReturn(ReturnOf(outcome))]
    /\ UNCHANGED <<conversation_history, last_interaction, search_cache, appointment_context,
                   auth_token, now, req, requests>>

NextClient ==
    \/ ClientStart
    \/ \E outcome \in ClientOutcomes : ClientAttempt(outcome)

SpecClient == Init /\ [][NextClient]_vars

\* ------------------------------------------------------- the text harness
\* parse_date_time and detect_language applied on their own to texts put
\* together from parts, so that what a text holds is known apart from what
\* the function makes of it.  Each run applies one function to one text.
MaxWords == 10
NoDate == [day |-> 0, sep |-> "", month |-> 0, year |-> 0]
DateParts == [day : {1, 13}, sep : {"/", "-"}, month : {6, 12}, year : {2025}]
\* An hour, its minutes (NoneInt when not written) and its marker (None when
\* not written).  The last two are hours no clock shows.
ClockParts ==
    [hour : {2, 3, 11, 12}, min : {NoneInt, 30}, ampm : {"am", "pm"}]
        \cup [hour : {0, 9, 14, 23}, min : {NoneInt, 30}, ampm : {None}]
        \cup [hour : {30, 99}, min : {NoneInt}, ampm : {None}]
NoRange == [start |-> [hour |-> 0, min |-> NoneInt, ampm |-> ""],
            end |-> [hour |-> 0, min |-> NoneInt, ampm |-> ""]]
TextParts == [date : DateParts \cup {NoDate}, range : [start : ClockParts, end : ClockParts] \cup {NoRange}]
DateText(date) ==
    IntText(date.day) \o <<date.sep>> \o IntText(date.month) \o <<date.sep>> \o IntText(date.year)
\* "2pm", "2:30pm", "2 AM", "14:30", "14"
ClockText(clock) ==
    IntText(clock.hour)
        \o (IF clock.min = NoneInt THEN <<>> ELSE <<":">> \o Pad2(clock.min))
        \o (IF clock.ampm = "pm" THEN <<"p", "m">>
            ELSE IF clock.ampm = "am" THEN <<" ", "A", "M">> ELSE <<>>)
TextOf(parts) ==
    <<"b", "o", "o", "k", " ">>
        \o (IF parts.date = NoDate THEN <<>> ELSE DateText(parts.date) \o <<" ">>)
        \o (IF parts.range = NoRange THEN <<>>
            ELSE ClockText(parts.range.start) \o <<" ", "t", "o", " ">>
                     \o ClockText(parts.range.end))
\* k keywords of the keyword list, then e words outside it
RECURSIVE Words(_, _)
Words(k, e) ==
    IF k > 0 THEN <<"M", "a", "l", "a", ",", " ">> \o Words(k - 1, e)
    ELSE IF e > 0 THEN <<"f", "i", "n", "d", " ">> \o Words(k, e - 1)
    ELSE <<>>
\* What an application reports: the parts of the text and the value returned.
TextReport(function, parts, result) ==
    [status |-> 0, body |-> [json |-> function, parts |-> parts, result |-> result]]

ParseText(parts) ==
    /\ requests = 0
    /\ requests' = 1
    /\ resp' = [resp EXCEPT ![1] = TextReport("parse_date_time", parts,
                                               parse_date_time(TextOf(parts)))]
    /\ UNCHANGED <<conversation_history, last_interaction, search_cache, appointment_context,
                   auth_token, now, pc, req, sent>>

DetectText(k, e) ==
    /\ requests = 0
    /\ requests' = 1
    /\ resp' = [resp EXCEPT ![1] = TextReport("detect_language",
                                               [marathi |-> k, words |-> k + e],
                                               detect_language(Words(k, e)))]
    /\ UNCHANGED <<conversation_history, last_interaction, search_cache, appointment_context,
                   auth_token, now, pc, req, sent>>

\* The singular keys of the table, and two words it does not hold.
TagWords ==
    {<<"d", "o", "c", "t", "o", "r">>, <<"p", "h", "y", "s", "i", "c", "i", "a", "n">>,
     <<"s", "u", "r", "g", "e", "o", "n">>, <<"d", "e", "n", "t", "i", "s", "t">>,
     <<"n", "u", "r", "s", "e">>, <<"m", "l", "a">>, <<"m", "p">>,
     <<"m", "i", "n", "i", "s", "t", "e", "r">>, <<"l", "a", "w", "y", "e", "r">>,
     <<"a", "d", "v", "o", "c", "a", "t", "e">>, <<"t", "e", "a", "c", "h", "e", "r">>,
     <<"p", "r", "o", "f", "e", "s", "s", "o", "r">>,
     <<"p", "l", "u", "m", "b", "e", "r">>, <<"t", "a", "x", "i">>}
\* A tag as a caller may write it: the word or its plural, in lower case,
\* capitalised or in capitals, with blanks before and after it.
TagParts ==
    [word : TagWords, plural : BOOLEAN, case : {"lower", "title", "upper"},
     before : {<<>>, <<" ">>, <<"\t", " ">>}, after : {<<>>, <<" ">>, <<" ", "\n">>}]
UpperChar(c) == IF IsLower(c) THEN UpperCase[CHOOSE i \in 1..26 : LowerCase[i] = c] ELSE c
TagText(parts) ==
    LET word == parts.word \o (IF parts.plural THEN <<"s">> ELSE <<>>)
        cased == [i \in 1..Len(word) |->
                     IF parts.case = "upper" \/ (parts.case = "title" /\ i = 1)
                     THEN UpperChar(word[i]) ELSE word[i]]
    IN parts.before \o cased \o parts.after

NormalizeTag(parts) ==
    /\ requests = 0
    /\ requests' = 1
    /\ resp' = [resp EXCEPT ![1] = TextReport("normalize_tag_name", parts,
                                               normalize_tag_name(TagText(parts)))]
    /\ UNCHANGED <<conversation_history, last_interaction, search_cache, appointment_context,
                   auth_token, now, pc, req, sent>>

NextText ==
    \/ \E parts \in TextParts : ParseText(parts)
    \/ \E k \in 0..MaxWords : \E e \in 0..(MaxWords - k) : DetectText(k, e)
    \/ \E parts \in TagParts : NormalizeTag(parts)

SpecText == Init /\ [][NextText]_vars


\* ============================================================== claims
\* Helpers of the claims: u's entry of a dictionary is the same in d and e.
SameEntry(d, e, u) == (u \in DOMAIN d) = (u \in DOMAIN e) /\ (u \in DOMAIN d => d[u] = e[u])
\* u is in none of the four dictionaries of the next state.
AbsentNext(u) ==
    /\ u \notin DOMAIN conversation_history'
    /\ u \notin DOMAIN last_interaction'
    /\ u \notin DOMAIN search_cache'
    /\ u \notin DOMAIN appointment_context'
Absent(u) ==
    /\ u \notin DOMAIN conversation_history
    /\ u \notin DOMAIN last_interaction
    /\ u \notin DOMAIN search_cache
    /\ u \notin DOMAIN appointment_context
\* The request q is accepted: it passes language detection and validation.
Accepted(q) ==
    /\ LangOf[q.query] # ZeroDivisionError
    /\ ParseFloat(q.latitude).ok
    /\ ParseFloat(q.longitude).ok

\* C1: when a request of any user arrives, every session whose last
\* interaction is more than CONVERSATION_TIMEOUT old leaves all four
\* dictionaries (if it is the requester's own and the request is accepted, a
\* new empty session takes its place), every session within the timeout keeps
\* its history, cache and pending fields, and until the request has returned
\* no step brings a user back or touches another user's session.
SessionSweep ==
    [][/\ \A r \in Slots, q \in Requests :
            Start(r, q.query, q.user_id, q.latitude, q.longitude, q.authorization) =>
                LET stale == {u \in DOMAIN last_interaction :
                                 now - last_interaction[u] > CONVERSATION_TIMEOUT}
                IN /\ \A u \in stale :
                        IF u = q.user_id /\ Accepted(q)
                        THEN /\ conversation_history'[u] = <<>>
                             /\ last_interaction'[u] = now
                             /\ u \notin DOMAIN search_cache'
                             /\ u \in DOMAIN appointment_context' =>
                                    appointment_context'[u] = ParsedOf[q.query]
                        ELSE AbsentNext(u)
                   /\ \A u \in (DOMAIN last_interaction) \ stale :
                        /\ SameEntry(conversation_history, conversation_history', u)
                        /\ SameEntry(search_cache, search_cache', u)
                        /\ u # q.user_id =>
                              /\ SameEntry(appointment_context, appointment_context', u)
                              /\ SameEntry(last_interaction, last_interaction', u)
       /\ requests' = requests =>
            /\ DOMAIN conversation_history' = DOMAIN conversation_history
            /\ DOMAIN last_interaction' = DOMAIN last_interaction
            /\ \A u \in Users :
                  (\A r \in Slots : pc[r] = "idle" \/ req[r].user_id # u) =>
                      /\ SameEntry(conversation_history, conversation_history', u)
                      /\ SameEntry(last_interaction, last_interaction', u)
                      /\ SameEntry(search_cache, search_cache', u)
                      /\ SameEntry(appointment_context, appointment_context', u)
      ]_vars
\* A request has returned whose sweep removed a session, now absent, while
\* another user's earlier session is still there with its history.
SessionSweepWitness ==
    \E r \in Slots : \E u \in req[r].swept : \E v \in DOMAIN conversation_history :
        /\ pc[r] = "idle"
        /\ Absent(u)
        /\ v # u
        /\ conversation_history[v] # <<>>
        /\ last_interaction[v] < now
        /\ now - last_interaction[v] <= CONVERSATION_TIMEOUT

\* C2: a user's search cache and pending appointment fields never outlive the
\* session: every key of search_cache and of appointment_context is a key of
\* conversation_history and of last_interaction, which have the same keys.
CacheWithinSession ==
    /\ DOMAIN search_cache \subseteq DOMAIN conversation_history
    /\ DOMAIN appointment_context \subseteq DOMAIN conversation_history
    /\ DOMAIN conversation_history = DOMAIN last_interaction
\* A user holds a cache and pending fields after a sweep removed a session
\* that had a cache of its own.
CacheWithinSessionWitness ==
    \E r \in Slots : \E u \in DOMAIN search_cache :
        /\ u \in DOMAIN appointment_context
        /\ req[r].swept # {}
        /\ \A v \in req[r].swept : v # u /\ Absent(v)

\* The coordinates the specification gives as malformed: "abc" and "".
Malformed(text) == text = <<"a", "b", "c">> \/ text = <<>>
BadCoordinates(q) == Malformed(q.latitude) \/ Malformed(q.longitude)

\* C3: a request whose latitude or longitude does not parse always returns
\* the localized invalid-coordinates response, with no LLM call and no backend
\* call.
InvalidCoordinatesAnswered ==
    \A r \in Slots :
        (req[r].user_id # None /\ ~req[r].valid /\ pc[r] = "idle") =>
            /\ \E lang \in {"en", "mr"} : resp[r] = Returned(get_location_error(lang))
            /\ sent[r] = <<>>

\* C4, as amended: a request that fails coordinate validation changes the
\* session state only by its sweep: each of the four dictionaries loses the
\* users whose last interaction was more than CONVERSATION_TIMEOUT old at
\* arrival, and every other entry is the same before and after.
InvalidRequestOnlySweeps ==
    [][\A r \in Slots, q \in Requests :
          (BadCoordinates(q) /\
           Start(r, q.query, q.user_id, q.latitude, q.longitude, q.authorization)) =>
              LET stale == {u \in DOMAIN last_interaction :
                               now - last_interaction[u] > CONVERSATION_TIMEOUT}
              IN /\ conversation_history' = Without(conversation_history, stale)
                 /\ last_interaction' = Without(last_interaction, stale)
                 /\ search_cache' = Without(search_cache, stale)
                 /\ appointment_context' = Without(appointment_context, stale)
      ]_vars
\* A request with malformed coordinates has returned; its sweep removed a
\* session and left another, with its history, in place.
InvalidRequestOnlySweepsWitness ==
    \E r \in Slots : \E v \in DOMAIN conversation_history :
        /\ pc[r] = "idle"
        /\ req[r].user_id # None
        /\ ~req[r].valid
        /\ req[r].swept # {}
        /\ \A u \in req[r].swept : Absent(u)
        /\ conversation_history[v] # <<>>
\* C4, as stated: a request that fails coordinate validation leaves the four
\* dictionaries identical, for every user.
InvalidRequestMutatesNothing ==
    [][\A r \in Slots, q \in Requests :
          (BadCoordinates(q) /\
           Start(r, q.query, q.user_id, q.latitude, q.longitude, q.authorization)) =>
              UNCHANGED <<conversation_history, last_interaction, search_cache,
                          appointment_context>>
      ]_vars

\* The analysis output is a nearby-search call.
IsNearby(out) ==
    /\ out.kind = "text"
    /\ "functionCall" \in DOMAIN out.parsed
    /\ out.parsed.functionCall.name = "get_nearby_services"
\* The user holds an entry under the key, stored less than the cache timeout ago.
LiveEntry(user_id, search_key) ==
    /\ Has(search_cache, user_id)
    /\ Has(search_cache[user_id], search_key)
    /\ now - search_cache[user_id][search_key].timestamp < SEARCH_CACHE_TIMEOUT
\* The step of slot r answered the call from the stored result, with no
\* backend call.
AnsweredFrom(r, result) ==
    /\ sent'[r] = sent[r] \o <<LLMCall("format")>>
    /\ LET history == conversation_history'[req[r].user_id]
       IN history[Len(history)] =
              ResultTurn("get_nearby_services", JObject("nearby_services", result))

\* C5: a nearby-search turn whose search key is that of an earlier turn of the
\* same user, stored less than the cache timeout ago, returns the stored
\* result with no new backend call, whatever the stored value, the empty
\* result included.
CacheHit ==
    [][\A r \in Slots, out \in SearchOutputs, reply \in SearchReplies :
          (IsNearby(out) /\ Analyze(r, out, reply)) =>
              LET search_key == SearchKey(out.parsed.functionCall.args, req[r].lat, req[r].lon)
              IN LiveEntry(req[r].user_id, search_key) =>
                     AnsweredFrom(r, search_cache[req[r].user_id][search_key].result)
      ]_vars

\* The role tags the nearby searches carry.
Tags == {out.parsed.functionCall.args["tagName"] : out \in SearchOutputs}
\* C7: nearby-search cache entries are addressed by the normalized role tag:
\* a turn whose tag normalizes to the tag of a live, non-empty entry of the
\* same user and coordinates is answered from that entry.
CacheKeyNormalized ==
    [][\A r \in Slots, out \in SearchOutputs, reply \in SearchReplies :
          (IsNearby(out) /\ Has(out.parsed.functionCall.args, "tagName")
                         /\ Analyze(r, out, reply)) =>
              \A tag \in Tags :
                  LET args == out.parsed.functionCall.args
                      stored_key == SearchKey(Put(args, "tagName", tag), req[r].lat, req[r].lon)
                  IN (/\ normalize_tag_name(tag) = normalize_tag_name(args["tagName"])
                      /\ LiveEntry(req[r].user_id, stored_key)
                      /\ Truthy(search_cache[req[r].user_id][stored_key].result)) =>
                         AnsweredFrom(r, search_cache[req[r].user_id][stored_key].result)
      ]_vars

\* C8: when the nearby-search adapter degrades to the empty result (no token,
\* a status other than 200, no response), no cache entry is written for the
\* key.
NoEntryOnDegradedSearch ==
    [][\A r \in Slots, out \in SearchOutputs, reply \in SearchReplies :
          (IsNearby(out) /\ Analyze(r, out, reply)) =>
              LET user_id == req[r].user_id
                  search_key == SearchKey(out.parsed.functionCall.args, req[r].lat, req[r].lon)
                  degraded == NoToken(auth_token) \/ reply.kind # "response" \/ reply.status # 200
              IN (degraded /\ ~(Has(search_cache, user_id) /\ Has(search_cache[user_id], search_key))) =>
                     ~(Has(search_cache', user_id) /\ Has(search_cache'[user_id], search_key))
      ]_vars

\* The calls of a request that went to the backend.
BackendCalls(r) == {sent[r][i] : i \in {j \in DOMAIN sent[r] : sent[r][j].api # "llm"}}
\* C9: every backend call made while processing a request carries the token
\* that request supplied; a request without authorization makes no
\* authenticated backend call.
OwnCredential ==
    \A r \in Slots : \A call \in BackendCalls(r) :
        /\ req[r].authorization # <<>>
        /\ call.token = StripBearer(req[r].authorization)

\* C10, as amended: requests are processed one at a time (the handler never
\* yields the event loop between its start and its return), so no request
\* starts while another is at its LLM call, and every backend call of a
\* request that supplied a token carries that token.
OneRequestAtATime ==
    /\ Cardinality({r \in Slots : pc[r] # "idle"}) <= 1
    /\ \A r \in Slots : \A call \in BackendCalls(r) :
          req[r].authorization # <<>> => call.token = StripBearer(req[r].authorization)
\* A request that supplied a token has sent its backend call, with that
\* token, after a request of another user had its search answered under
\* another token.
OneRequestAtATimeWitness ==
    \E r \in Slots : \E v \in DOMAIN search_cache : \E k \in DOMAIN search_cache[v] :
        /\ req[r].authorization = <<"Bearer ", "t1">>
        /\ BackendCalls(r) # {}
        /\ v # req[r].user_id
        /\ Truthy(search_cache[v][k].result)
        /\ auth_token = "t1"
\* C10, as stated: while a request is suspended at its LLM call, another
\* request can start (the step by which the second token reaches the first
\* request's backend call).
StartsWhileSuspended ==
    \A a \in Slots :
        (pc[a] = "analysis" /\ requests < MaxRequests) =>
            ENABLED (\E b \in Slots \ {a}, q \in Requests :
                        Start(b, q.query, q.user_id, q.latitude, q.longitude, q.authorization))

\* C6: a cache read of a key whose entry is more than SEARCH_CACHE_TIMEOUT
\* old reports a miss and deletes that entry, leaving the user's other
\* entries as they were; a read within the timeout returns the stored result
\* and leaves the cache as it was.
CacheExpiry ==
    [][\A search_key \in CacheKeys :
          CacheRead(CacheUser, search_key) =>
              IF Has(search_cache, CacheUser) /\ Has(search_cache[CacheUser], search_key)
              THEN LET mine == search_cache[CacheUser]
                       entry == mine[search_key]
                   IN IF now - entry.timestamp > SEARCH_CACHE_TIMEOUT
                      THEN /\ resp'[1].body.result = JNull
                           /\ DOMAIN search_cache'[CacheUser] = (DOMAIN mine) \ {search_key}
                           /\ \A other \in (DOMAIN mine) \ {search_key} :
                                 search_cache'[CacheUser][other] = mine[other]
                      ELSE /\ resp'[1].body.result = entry.result
                           /\ search_cache' = search_cache
              ELSE /\ resp'[1].body.result = JNull
                   /\ search_cache' = search_cache
      ]_vars
\* A read found an entry and reported a miss: the entry was past its expiry
\* and is gone, while the entry of the other key is still in the cache.
CacheExpiryWitness ==
    /\ resp[1].body.json = "cache_read"
    /\ resp[1].body.found
    /\ resp[1].body.result = JNull
    /\ ~Has(search_cache[CacheUser], resp[1].body.search_key)
    /\ \E other \in CacheKeys : Has(search_cache[CacheUser], other)

\* The analysis output asks for the function of that name.
IsCall(out, name) ==
    /\ out.kind = "text"
    /\ "functionCall" \in DOMAIN out.parsed
    /\ out.parsed.functionCall.name = name
\* The backend turned the call down: a status outside 2xx, or no answer.
Rejected(reply) ==
    \/ reply.kind = "network_error"
    \/ reply.kind = "response" /\ reply.status \notin 200..299
\* One of the calls went to that endpoint.
CallsTo(calls, api) == \E i \in DOMAIN calls : calls[i].api = api

\* C11: when the backend rejects a task creation or an appointment creation
\* (a status outside 2xx, or no answer), the request still returns a
\* user-facing response: it goes on to its formatting call or returns a body,
\* and no exception leaves the handler.
WriteFailureAnswered ==
    [][\A r \in Slots, out \in ToolOutputs : \A reply \in RepliesTo(out) :
          (/\ Analyze(r, out, reply)
           /\ IsCall(out, "create_task") \/ IsCall(out, "create_appointment")
           /\ CallsTo(sent'[r], "task") \/ CallsTo(sent'[r], "appointment")
           /\ Rejected(reply))
          => /\ resp'[r].status # 500
             /\ pc'[r] = "format" \/ resp'[r].status = 200
      ]_vars

\* The turns the step added to the user's history hold, next to each other,
\* a model turn with a call of that function and a function turn with its
\* result.
RecordsCall(before, after, name) ==
    \E i \in (Len(before) + 1)..(Len(after) - 1) :
        /\ after[i].role = "model"
        /\ after[i].part = "functionCall"
        /\ after[i].functionCall.name = name
        /\ after[i + 1].role = "function"
        /\ after[i + 1].name = name

\* C12: when the backend call of a task creation or an appointment creation
\* fails, the model's function-call turn and the function-result turn of that
\* call are in the user's conversation history when the request ends.
WriteFailureRecorded ==
    [][\A r \in Slots, out \in ToolOutputs : \A reply \in RepliesTo(out) :
          (/\ Analyze(r, out, reply)
           /\ IsCall(out, "create_task") \/ IsCall(out, "create_appointment")
           /\ CallsTo(sent'[r], "task") \/ CallsTo(sent'[r], "appointment")
           /\ Rejected(reply))
          => RecordsCall(conversation_history[req[r].user_id],
                         conversation_history'[req[r].user_id],
                         out.parsed.functionCall.name)
      ]_vars

\* C13: whenever the analysis yields a function call, of any name and with
\* any backend outcome, the user's conversation history gains a model turn
\* holding that call, immediately followed by a function turn holding the
\* call's raw result.
EveryCallRecorded ==
    [][\A r \in Slots, out \in ToolOutputs : \A reply \in RepliesTo(out) :
          (/\ Analyze(r, out, reply)
           /\ out.kind = "text"
           /\ "functionCall" \in DOMAIN out.parsed)
          => LET before == conversation_history[req[r].user_id]
                 after == conversation_history'[req[r].user_id]
             IN /\ RecordsCall(before, after, out.parsed.functionCall.name)
                /\ after[Len(after)].response =
                       Dispatch(req[r], out.parsed.functionCall, reply).function_response
      ]_vars

\* The history holds no nearby search that succeeded and found somebody.
NoLookup(history) ==
    \A i \in DOMAIN history :
        ~(/\ history[i].role = "function"
          /\ "key" \in DOMAIN history[i].response
          /\ history[i].response.key = "nearby_services"
          /\ history[i].response.value.json = "dict"
          /\ "success" \in DOMAIN history[i].response.value
          /\ history[i].response.value.success
          /\ history[i].response.value.data.users # <<>>)

\* C14: when a create_task call is dispatched and the user's history holds
\* no successful, non-empty nearby-search result, the request returns the
\* person-not-found response in the request's language and makes no
\* task-creation backend call.
TaskWithoutLookup ==
    [][\A r \in Slots, out \in ToolOutputs : \A reply \in RepliesTo(out) :
          (/\ Analyze(r, out, reply)
           /\ IsCall(out, "create_task")
           /\ NoLookup(conversation_history[req[r].user_id]))
          => /\ ~CallsTo(sent'[r], "task")
             /\ resp'[r] = Returned(get_person_not_found_error(req[r].lang))
      ]_vars

\* The nearby-search backend call failed: a status other than 200, or no answer.
NearbyFailed(reply) ==
    \/ reply.kind = "network_error"
    \/ reply.kind = "response" /\ reply.status # 200

\* C15: when the nearby-search backend call fails, the adapter returns the
\* empty result, the request is not terminated but goes on to its formatting
\* call with that result recorded, and the formatting step returns a response
\* to the caller.
NearbyFailureDegrades ==
    [][/\ \A r \in Slots, out \in AnalysisOutputs : \A reply \in RepliesTo(out) :
             (/\ Analyze(r, out, reply)
              /\ IsNearby(out)
              /\ CallsTo(sent'[r], "nearby")
              /\ NearbyFailed(reply))
             => LET after == conversation_history'[req[r].user_id]
                IN /\ pc'[r] = "format"
                   /\ resp'[r] = NoResponse
                   /\ after[Len(after)] =
                          ResultTurn("get_nearby_services", JObject("nearby_services", EmptyList))
       /\ \A r \in Slots, out \in FormatOutputs :
             Format(r, out) => resp'[r].status = 200 /\ pc'[r] = "idle"
      ]_vars
\* A request whose nearby search reached the backend and came back empty-handed
\* has returned a body: the recorded result of its call is the empty list.
NearbyFailureDegradesWitness ==
    \E r \in Slots :
        /\ pc[r] = "idle"
        /\ resp[r].status = 200
        /\ CallsTo(sent[r], "nearby")
        /\ LET history == conversation_history[req[r].user_id]
           IN /\ Len(history) >= 2
              /\ history[Len(history) - 1] =
                     ResultTurn("get_nearby_services", JObject("nearby_services", EmptyList))
              /\ history[Len(history)] = ModelTurn(resp[r].body)

\* C16: when the availability backend call returns a status outside 2xx or
\* is unreachable, the adapter yields an empty result and the request still
\* returns a user-facing response: it goes on to its formatting call, and no
\* exception leaves the handler.
AvailabilityFailureDegrades ==
    [][\A r \in Slots, out \in ToolOutputs : \A reply \in RepliesTo(out) :
          (/\ Analyze(r, out, reply)
           /\ IsCall(out, "get_user_availability")
           /\ CallsTo(sent'[r], "user-availability")
           /\ Rejected(reply))
          => /\ pc'[r] = "format"
             /\ resp'[r].status # 500
             /\ ~Truthy(Dispatch(req[r], out.parsed.functionCall, reply).function_response.value)
      ]_vars

\* C17: with no token in the process-wide slot, none of the five adapters
\* (list services, nearby search, availability, create task, create
\* appointment) issues its backend HTTP call: each returns or raises with
\* nothing sent.
NoTokenNoCall ==
    [][\A name \in Adapters, reply \in AdapterReplies :
          (AdapterCall(name, reply) /\ NoToken(auth_token)) => sent'[1] = <<>>
      ]_vars
\* The task adapter was called on an empty slot and raised without a call.
NoTokenNoCallWitness ==
    /\ resp[1].body.json = "adapter"
    /\ resp[1].body.name = "create_task"
    /\ NoToken(resp[1].body.token)
    /\ resp[1].body.exception = "ValueError"
    /\ sent[1] = <<>>

\* C18: if the analysis LLM call or the formatting LLM call of a request
\* returns the failure value, that request appends no turn to the user's
\* conversation history: the step that receives the failure leaves every
\* history as it was.
LLMFailureAppendsNothing ==
    [][\A r \in Slots :
          /\ Analyze(r, LLMFailure, NoReply) => conversation_history' = conversation_history
          /\ Format(r, LLMFailure) => conversation_history' = conversation_history
      ]_vars

\* The step made slot r's request, one that passed the coordinate
\* validation, return a body.
ReturnsBody(r) ==
    /\ resp'[r] # resp[r]
    /\ resp'[r].status = 200
    /\ req'[r].valid
\* The step appended the body it returned, as a model turn, to the end of the
\* user's history, and nothing else.
AppendsResponse(r) ==
    /\ Has(conversation_history, req'[r].user_id)
    /\ conversation_history' =
           [conversation_history EXCEPT ![req'[r].user_id] =
               Append(@, ModelTurn(resp'[r].body))]

\* C19: every request that passes the coordinate validation and returns a
\* body appends that body, as a model turn, as the last turn of the user's
\* conversation history, the default response included; the one exception is
\* the request whose analysis LLM call fails, which returns the default
\* response and appends nothing.
PersistUnlessAnalysisFails ==
    [][\A r \in Slots :
          ReturnsBody(r) =>
              IF Analyze(r, LLMFailure, NoReply)
              THEN /\ conversation_history' = conversation_history
                   /\ resp'[r] = Returned(get_default_response(req[r].lang))
              ELSE AppendsResponse(r)
      ]_vars
\* A request whose formatting output was unusable has returned the default
\* response, and that response is the last turn of its user's history.
PersistUnlessAnalysisFailsWitness ==
    \E r \in Slots :
        /\ pc[r] = "idle"
        /\ req[r].valid
        /\ Len(sent[r]) >= 2
        /\ resp[r] = Returned(get_default_response(req[r].lang))
        /\ LET history == conversation_history[req[r].user_id]
           IN /\ history # <<>>
              /\ history[Len(history)] = ModelTurn(resp[r].body)
\* C19, as stated: every request that passes the coordinate validation and
\* returns a body appends it as the last turn of the user's history.
PersistAlways ==
    [][\A r \in Slots : ReturnsBody(r) => AppendsResponse(r)]_vars

\* C20: when the LLM endpoint answers the POST with a status of the
\* forcelist (500, 502, 503, 504) and retries are left, the client tries
\* again; it makes at most RETRY_TOTAL + 1 attempts; when it gives up or meets
\* a failure it does not retry it returns None; and a call in progress has
\* made at most RETRY_TOTAL attempts, so that it ends.
ClientRetries ==
    [][\A outcome \in ClientOutcomes :
          ClientAttempt(outcome) =>
              /\ Len(sent'[1]) <= RETRY_TOTAL + 1
              /\ (/\ outcome.kind = "response"
                  /\ outcome.status \in STATUS_FORCELIST
                  /\ Len(sent[1]) < RETRY_TOTAL) => pc'[1] = "call_api"
              /\ pc'[1] = "call_api" => Len(sent'[1]) <= RETRY_TOTAL
              /\ (pc'[1] = "idle" /\ ~(outcome.kind = "response" /\ outcome.status = 200))
                     => resp'[1] = ClientReturn(JNull)
      ]_vars

\* The value a payload holds under a key.
HasField(payload, key) == \E i \in DOMAIN payload : payload[i][1] = key
Field(payload, key) == payload[CHOOSE i \in DOMAIN payload : payload[i][1] = key][2]
\* The appointment call among the calls.
AppointmentCall(calls) == calls[CHOOSE i \in DOMAIN calls : calls[i].api = "appointment"]

\* C21: when a create_appointment call is dispatched, the date, time and
\* duration sent to the backend are the user's pending ones wherever the
\* pending fields hold one, and the model's argument only for a field the
\* pending fields do not hold.
PendingPreferred ==
    [][\A r \in Slots, out \in AppointmentOutputs : \A reply \in RepliesTo(out) :
          (/\ Analyze(r, out, reply)
           /\ IsCall(out, "create_appointment")
           /\ CallsTo(sent'[r], "appointment"))
          => LET payload == AppointmentCall(sent'[r]).filters
                 pending == Get(appointment_context, req[r].user_id,
                                [date |-> NoneText, time |-> NoneText, duration |-> NoneInt])
                 args == out.parsed.functionCall.args
             IN /\ Field(payload, "date") =
                       Join(IF pending.date # NoneText THEN pending.date ELSE args.date)
                /\ Field(payload, "time") =
                       Join(IF pending.time # NoneText THEN pending.time
                            ELSE NormalizeTime(args.time))
                /\ Field(payload, "duration") =
                       IF pending.duration # NoneInt THEN IntStr(pending.duration)
                       ELSE Join(args.duration)
      ]_vars
\* An appointment call went out with the date, time and duration of the
\* user's own text ("13/6/2025 2pm to 3pm"), none of which the model's
\* arguments held.
PendingPreferredWitness ==
    \E r \in Slots :
        /\ CallsTo(sent[r], "appointment")
        /\ Field(AppointmentCall(sent[r]).filters, "date") = "2025-06-13"
        /\ Field(AppointmentCall(sent[r]).filters, "time") = "14:00:00"
        /\ Field(AppointmentCall(sent[r]).filters, "duration") = "60"

\* The backend confirmed the creation.
Confirmed(reply) ==
    /\ reply.kind = "response"
    /\ reply.status \in 200..399
    /\ reply.body.json = "dict"
    /\ "success" \in DOMAIN reply.body
    /\ reply.body.success
\* The user's pending-appointment fields hold nothing.
NothingPending(ac, user_id) ==
    /\ Has(ac, user_id)
    /\ ac[user_id].date = NoneText
    /\ ac[user_id].time = NoneText
    /\ ac[user_id].duration = NoneInt

\* C22: after a successful appointment creation the user's pending fields
\* are empty; after an unsuccessful one they are unchanged; and no other step
\* of the service changes a user's pending fields, except that a request
\* sweeps the expired sessions and stores the fields its own text holds.
PendingLifecycle ==
    [][/\ \A r \in Slots, out \in AppointmentOutputs : \A reply \in RepliesTo(out) :
             Analyze(r, out, reply) =>
                 IF /\ IsCall(out, "create_appointment")
                    /\ CallsTo(sent'[r], "appointment")
                    /\ Confirmed(reply)
                 THEN /\ NothingPending(appointment_context', req[r].user_id)
                      /\ \A u \in Users \ {req[r].user_id} :
                            SameEntry(appointment_context, appointment_context', u)
                 ELSE appointment_context' = appointment_context
       /\ \A r \in Slots, out \in FormatOutputs :
             Format(r, out) => appointment_context' = appointment_context
       /\ Tick => appointment_context' = appointment_context
       /\ \A r \in Slots, q \in AppointmentRequests :
             Start(r, q.query, q.user_id, q.latitude, q.longitude, q.authorization) =>
                 \A u \in DOMAIN appointment_context :
                     \/ /\ u = q.user_id
                        /\ req'[r].valid
                        /\ parse_date_time(QueryText[q.query]).time # NoneText
                        /\ Has(appointment_context', u)
                        /\ appointment_context'[u] = parse_date_time(QueryText[q.query])
                     \/ u \in Expired(last_interaction, now) /\ ~Has(appointment_context', u)
                     \/ /\ u \notin Expired(last_interaction, now)
                        /\ Has(appointment_context', u)
                        /\ appointment_context'[u] = appointment_context[u]
      ]_vars
\* An appointment was created for a user whose text had left pending fields:
\* the call carried them, and the fields are empty now.
PendingLifecycleWitness ==
    \E r \in Slots :
        /\ pc[r] = "format"
        /\ CallsTo(sent[r], "appointment")
        /\ Field(AppointmentCall(sent[r]).filters, "date") = "2025-06-13"
        /\ NothingPending(appointment_context, req[r].user_id)

\* The nearby call carries the query parameter of that name.
HasParam(call, name) == \E i \in DOMAIN call.filters : call.filters[i][1] = name

\* C23: the nearby-search adapter is never invoked with both a person name
\* and a role tag: no nearby call of a request carries both the userName and
\* the tagName filter.
OneFilterPerSearch ==
    \A r \in Slots : \A i \in DOMAIN sent[r] :
        sent[r][i].api = "nearby" =>
            ~(HasParam(sent[r][i], "userName") /\ HasParam(sent[r][i], "tagName"))

\* C24: the conversation timeout is 2 hours: the sweep of a request never
\* deletes a session idle for less than 2 hours (120 minutes of the clock),
\* and deletes every session idle for more than that.
TwoHourTimeout ==
    [][\A r \in Slots, q \in Requests :
          Start(r, q.query, q.user_id, q.latitude, q.longitude, q.authorization) =>
              \A u \in DOMAIN last_interaction :
                  /\ now - last_interaction[u] < 2 * 60 =>
                         /\ Has(last_interaction', u)
                         /\ SameEntry(search_cache, search_cache', u)
                         /\ u # q.user_id => SameEntry(conversation_history,
                                                       conversation_history', u)
                  /\ (now - last_interaction[u] > 2 * 60 /\ u # q.user_id) =>
                         ~Has(last_interaction', u)
      ]_vars

\* C25: the search-cache timeout is shorter than the idle timeout the sweep
\* applies: whenever a session is idle long enough for the sweep to delete
\* it, every cache entry it holds is already past SEARCH_CACHE_TIMEOUT.
CacheExpiresFirst ==
    \A u \in DOMAIN search_cache :
        (Has(last_interaction, u) /\ now - last_interaction[u] > CONVERSATION_TIMEOUT) =>
            /\ SEARCH_CACHE_TIMEOUT < CONVERSATION_TIMEOUT
            /\ \A search_key \in DOMAIN search_cache[u] :
                  now - search_cache[u][search_key].timestamp > SEARCH_CACHE_TIMEOUT

\* What the texts of the harness say, read as a person reads them.
\* The hour of the day a clock names: 12am is 0, 12pm is 12, 1pm..11pm are
\* 13..23, am hours and unmarked hours are as written.
HourOfDay(clock) ==
    IF clock.ampm = "am" /\ clock.hour = 12 THEN 0
    ELSE IF clock.ampm = "pm" /\ clock.hour \in 1..11 THEN clock.hour + 12
    ELSE clock.hour
MinuteOfDay(clock) == 60 * HourOfDay(clock) + (IF clock.min = NoneInt THEN 0 ELSE clock.min)
\* A clock with its hour and minutes in range.
ValidClock(clock) ==
    /\ clock.min = NoneInt \/ clock.min \in 0..59
    /\ IF clock.ampm \in {"am", "pm"} THEN clock.hour \in 1..12 ELSE clock.hour \in 0..23
\* YYYY-MM-DD and HH:MM:00
IsoDate(date) ==
    IntText(date.year) \o <<"-">> \o Pad2(date.month) \o <<"-">> \o Pad2(date.day)
IsoTime(clock) ==
    Pad2(HourOfDay(clock)) \o <<":">> \o Pad2(MinuteOfDay(clock) % 60) \o <<":", "0", "0">>
\* The report of parse_date_time on a text with these parts.
Parsed(report) == report.body.json = "parse_date_time"

\* C26: for every text that holds a date D/M/YYYY or D-M-YYYY and a range
\* "H[:MM][am|pm] to H[:MM][am|pm]" with hours and minutes in range,
\* parse_date_time returns the date as zero-padded YYYY-MM-DD, the start as
\* zero-padded HH:MM:00 of the 24-hour clock, and the minutes from start to
\* end as the duration.
ExactParse ==
    (/\ Parsed(resp[1])
     /\ resp[1].body.parts.date # NoDate
     /\ resp[1].body.parts.range # NoRange
     /\ ValidClock(resp[1].body.parts.range.start)
     /\ ValidClock(resp[1].body.parts.range.end))
    => /\ resp[1].body.result.date = IsoDate(resp[1].body.parts.date)
       /\ resp[1].body.result.time = IsoTime(resp[1].body.parts.range.start)
       /\ resp[1].body.result.duration =
              (MinuteOfDay(resp[1].body.parts.range.end)
                   - MinuteOfDay(resp[1].body.parts.range.start)) % (24 * 60)
\* "book 13/6/2025 2pm to 3pm" was parsed to 2025-06-13, 14:00:00, 60.
ExactParseWitness ==
    /\ Parsed(resp[1])
    /\ resp[1].body.parts.date = [day |-> 13, sep |-> "/", month |-> 6, year |-> 2025]
    /\ resp[1].body.parts.range.start = [hour |-> 2, min |-> NoneInt, ampm |-> "pm"]
    /\ resp[1].body.parts.range.end = [hour |-> 3, min |-> NoneInt, ampm |-> "pm"]
    /\ Join(resp[1].body.result.date) = "2025-06-13"
    /\ Join(resp[1].body.result.time) = "14:00:00"
    /\ resp[1].body.result.duration = 60

\* C27: for every text in which parse_date_time recognizes a date and a time
\* range, the duration is end minus start, with 24 hours added when the end
\* precedes the start, and so is never negative and always below 1440.
DurationWrapped ==
    (Parsed(resp[1]) /\ resp[1].body.result.time # NoneText)
    => LET start == MinuteOfDay(resp[1].body.parts.range.start)
           end == MinuteOfDay(resp[1].body.parts.range.end)
       IN /\ resp[1].body.result.duration =
                 IF end >= start THEN end - start ELSE end + 24 * 60 - start
          /\ resp[1].body.result.duration \in 0..(24 * 60 - 1)

\* C28: for every text with no date pattern, parse_date_time returns (None,
\* None, None) even if a time range is present; for every text with a date
\* pattern and no time-range pattern it returns (date, None, None).
PartialParse ==
    Parsed(resp[1]) =>
        /\ resp[1].body.parts.date = NoDate =>
               resp[1].body.result = [date |-> NoneText, time |-> NoneText, duration |-> NoneInt]
        /\ (resp[1].body.parts.date # NoDate /\ resp[1].body.parts.range = NoRange) =>
               resp[1].body.result = [date |-> IsoDate(resp[1].body.parts.date),
                                      time |-> NoneText, duration |-> NoneInt]
\* A text with a time range and no date was parsed to nothing at all.
PartialParseWitness ==
    /\ Parsed(resp[1])
    /\ resp[1].body.parts.date = NoDate
    /\ resp[1].body.parts.range # NoRange
    /\ resp[1].body.result.date = NoneText
    /\ resp[1].body.result.time = NoneText
    /\ resp[1].body.result.duration = NoneInt

\* C29: for every text with at least one word, detect_language returns 'mr'
\* exactly when the words of the keyword list are strictly more than 30% of
\* the words, and 'en' otherwise; exactly 30% is 'en'.
DetectionThreshold ==
    (resp[1].body.json = "detect_language" /\ resp[1].body.parts.words >= 1)
    => resp[1].body.result =
           IF 10 * resp[1].body.parts.marathi > 3 * resp[1].body.parts.words
           THEN "mr" ELSE "en"
\* A text of ten words, three of them keywords, was taken for English.
DetectionThresholdWitness ==
    /\ resp[1].body.json = "detect_language"
    /\ resp[1].body.parts.marathi = 3
    /\ resp[1].body.parts.words = 10
    /\ resp[1].body.result = "en"

\* C30: detect_language returns 'en' or 'mr' for every query without
\* raising, and 'en' for a query without a word (empty, blank or punctuation
\* only), so that the request goes on to the validation of its coordinates:
\* it ends that step at its analysis call or with a returned body.
DetectionTotal ==
    [][\A r \in Slots, q \in Requests :
          Start(r, q.query, q.user_id, q.latitude, q.longitude, q.authorization) =>
              /\ detect_language(QueryText[q.query]) \in {"en", "mr"}
              /\ FindWords(Lower(QueryText[q.query])) = <<>> =>
                     detect_language(QueryText[q.query]) = "en"
              /\ req'[r].lang \in {"en", "mr"}
              /\ pc'[r] = "analysis" \/ resp'[r].status = 200
      ]_vars

\* C31: normalising a normalised tag changes nothing; the letter case of a
\* tag and the blanks around it do not change its normal form; every plural
\* or synonym key of the table gives the normal form of its singular
\* ("Doctors", "physician" and "surgeons" all give "doctor").
TagNormalization ==
    resp[1].body.json = "normalize_tag_name" =>
        LET parts == resp[1].body.parts
            result == resp[1].body.result
            plain == parts.word \o (IF parts.plural THEN <<"s">> ELSE <<>>)
        IN /\ normalize_tag_name(result) = result
           /\ result = normalize_tag_name(plain)
           /\ Join(plain) \in DOMAIN TAG_NAME_MAPPING =>
                  result = normalize_tag_name(parts.word)
           /\ parts.word \in {<<"d", "o", "c", "t", "o", "r">>,
                              <<"p", "h", "y", "s", "i", "c", "i", "a", "n">>,
                              <<"s", "u", "r", "g", "e", "o", "n">>} =>
                  result = <<"d", "o", "c", "t", "o", "r">>
\* " SURGEONS\n" was normalised to "doctor".
TagNormalizationWitness ==
    /\ resp[1].body.json = "normalize_tag_name"
    /\ resp[1].body.parts.word = <<"s", "u", "r", "g", "e", "o", "n">>
    /\ resp[1].body.parts.plural
    /\ resp[1].body.parts.case = "upper"
    /\ resp[1].body.parts.before = <<" ">>
    /\ resp[1].body.result = <<"d", "o", "c", "t", "o", "r">>

\* The request in the other language, everything else being equal.
InOtherLanguage(request) == [request EXCEPT !.lang = IF @ = "mr" THEN "en" ELSE "mr"]
\* The turns the analysis step of a request appends, given how its dispatch ended.
TurnsAppended(out, exception) ==
    IF out.kind = "failure" THEN 0
    ELSE IF out.kind = "text" /\ "functionCall" \in DOMAIN out.parsed
    THEN (IF exception # None THEN 0 ELSE 3)
    ELSE 1

\* C32: a request's detected language changes none of its backend calls: a
\* request with coordinates that parse goes to its analysis call whatever its
\* language; and what the analysis step leaves (the backend calls with their
\* arguments, the cache, the pending fields, the history length) is what the
\* dispatch of the same function call leaves for the request taken in the
\* other language.
LanguageBlind ==
    [][/\ \A r \in Slots, q \in LanguageRequests :
             (/\ requests' = requests + 1
              /\ LangOf[q.query] \in {"en", "mr"}
              /\ Start(r, q.query, q.user_id, q.latitude, q.longitude, q.authorization))
             => sent'[r] = IF ParseFloat(q.latitude).ok /\ ParseFloat(q.longitude).ok
                           THEN <<LLMCall("analysis")>> ELSE <<>>
       /\ \A r \in Slots, out \in AnalysisOutputs : \A reply \in RepliesTo(out) :
             (pc[r] = "analysis" /\ pc'[r] # "analysis" /\ Analyze(r, out, reply)) =>
                 LET user_id == req[r].user_id
                 IN IF out.kind = "text" /\ "functionCall" \in DOMAIN out.parsed
                    THEN LET done == Dispatch(InOtherLanguage(req[r]),
                                              out.parsed.functionCall, reply)
                         IN /\ BackendCalls(r)' = BackendCalls(r) \cup
                                   {done.sent[i] : i \in DOMAIN done.sent}
                            /\ search_cache' = done.search_cache
                            /\ appointment_context' = done.appointment_context
                            /\ Has(conversation_history, user_id) =>
                                   Len(conversation_history'[user_id])
                                       = Len(conversation_history[user_id])
                                           + TurnsAppended(out, done.exception)
                    ELSE /\ BackendCalls(r)' = BackendCalls(r)
                         /\ search_cache' = search_cache
                         /\ appointment_context' = appointment_context
                         /\ Has(conversation_history, user_id) =>
                                Len(conversation_history'[user_id])
                                    = Len(conversation_history[user_id])
                                        + TurnsAppended(out, None)
      ]_vars
\* A request detected as Marathi has sent a backend call.
LanguageBlindWitness ==
    \E r \in Slots : req[r].lang = "mr" /\ BackendCalls(r) # {}

\* C33: a user's history changes only by growing at its end, every turn
\* keeping its position and content, except in the step whose sweep deletes
\* the history of a user whose session has expired.
HistoryAppendOnly ==
    [][\A user_id \in Users :
          Has(conversation_history, user_id) =>
              \/ /\ Has(conversation_history', user_id)
                 /\ Len(conversation_history'[user_id]) >= Len(conversation_history[user_id])
                 /\ SubSeq(conversation_history'[user_id], 1,
                           Len(conversation_history[user_id]))
                        = conversation_history[user_id]
              \/ /\ user_id \in Expired(last_interaction, now)
                 /\ requests' = requests + 1
                 /\ Has(conversation_history', user_id) =>
                        conversation_history'[user_id] = <<>>
      ]_vars
\* A history of a function call's three turns and the answer, followed by the
\* answer of a later request.
HistoryAppendOnlyWitness ==
    \E user_id \in Users :
        /\ Has(conversation_history, user_id)
        /\ Len(conversation_history[user_id]) >= 5
        /\ conversation_history[user_id][1].role = "user"

\* The turn holds a successful nearby-search result with a provider in it.
UsableLookup(turn) ==
    /\ turn.role = "function"
    /\ "key" \in DOMAIN turn.response
    /\ turn.response.key = "nearby_services"
    /\ turn.response.value.json = "dict"
    /\ "success" \in DOMAIN turn.response.value
    /\ turn.response.value.success
    /\ turn.response.value.data.users # <<>>
\* The task call among the calls.
TaskCall(calls) == calls[CHOOSE i \in DOMAIN calls : calls[i].api = "task"]

\* C34: when a create_task call is dispatched, the scan of the user's history
\* passes the function turns that hold a degraded (empty) nearby-search
\* result or the result of another operation without raising, and when the
\* history holds a successful, non-empty nearby-search result the task is
\* assigned to the first provider of the most recent such turn.
TaskRecoveryScan ==
    [][\A r \in Slots, out \in ToolOutputs : \A reply \in RepliesTo(out) :
          (/\ Analyze(r, out, reply)
           /\ IsCall(out, "create_task")
           /\ Has(conversation_history, req[r].user_id))
          => LET history == conversation_history[req[r].user_id]
                 usable == {i \in DOMAIN history : UsableLookup(history[i])}
             IN /\ resp'[r] \notin {Raised("TypeError"), Raised("KeyError")}
                /\ usable # {} =>
                       /\ CallsTo(sent'[r], "task")
                       /\ Field(TaskCall(sent'[r]).filters, "assigned_to")
                              = history[CHOOSE i \in usable : \A j \in usable : j <= i]
                                    .response.value.data.users[1].user_id
      ]_vars

\* C35: when the analysis response of a request with valid coordinates is a
\* usable one, the step appends to the user's history, and the first turn it
\* appends is the user turn of the request's query, for a direct answer as
\* for a function call.
QueryRecorded ==
    [][\A r \in Slots, out \in AnalysisOutputs : \A reply \in RepliesTo(out) :
          (/\ Analyze(r, out, reply)
           /\ out.kind = "text"
           /\ Has(conversation_history, req[r].user_id))
          => LET before == conversation_history[req[r].user_id]
                 after == conversation_history'[req[r].user_id]
             IN /\ Len(after) > Len(before)
                /\ after[Len(before) + 1] = UserTurn(req[r].query)
      ]_vars

\* The priority the user texts give, the request's own query being the most
\* recent one.
PriorityWithQuery(history, query) ==
    IF PriorityOf[query] # None THEN PriorityOf[query]
    ELSE Priority(history, Len(history))

\* C36: the task a create_task call posts carries the priority tag of the
\* most recent user text with an urgency keyword, the query of the request
\* that creates the task counting as the most recent user text, and 'medium'
\* when no user text holds one.
PriorityFromQuery ==
    [][\A r \in Slots, out \in TaskOutputs : \A reply \in RepliesTo(out) :
          (/\ Analyze(r, out, reply)
           /\ IsCall(out, "create_task")
           /\ CallsTo(sent'[r], "task"))
          => Field(TaskCall(sent'[r]).filters, "tags")[3]
                 = PriorityWithQuery(conversation_history[req[r].user_id], req[r].query)
      ]_vars

\* C37: every body returned to the caller holds, under "response", an object
\* with a "message": on the direct-answer path as on the formatted path, the
\* default response standing in for an LLM output of another shape.
ResponseEnvelope ==
    \A r \in Slots :
        resp[r].status = 200 =>
            /\ resp[r].body.json = "dict"
            /\ "response" \in DOMAIN resp[r].body
            /\ "message" \in DOMAIN resp[r].body.response

\* The LLM calls and the positions of the backend calls among a request's calls.
LLMCalls(calls) == {i \in DOMAIN calls : calls[i].api = "llm"}

\* C38: a request makes at most two LLM calls and at most one backend call:
\* its calls are the analysis call, then at most one backend call, then at
\* most one formatting call; the formatting call is made by the step that
\* dispatched a function call; and the step that receives a direct answer, a
\* first part without text or an output that is not JSON makes no call at
\* all, so that such a request has made exactly one LLM call and no backend
\* call.
CallBudget ==
    [][/\ \A r \in Slots :
             /\ Cardinality(LLMCalls(sent'[r])) <= 2
             /\ Cardinality(DOMAIN sent'[r] \ LLMCalls(sent'[r])) <= 1
             /\ Len(sent'[r]) <= 3
             /\ \A i \in DOMAIN sent'[r] :
                    /\ sent'[r][i] = LLMCall("analysis") <=> i = 1
                    /\ sent'[r][i] = LLMCall("format") => i = Len(sent'[r])
       /\ \A r \in Slots, out \in CallOutputs : \A reply \in RepliesTo(out) :
             Analyze(r, out, reply) =>
                 IF IsCall(out, out.parsed.functionCall.name)
                 THEN CallsTo(sent'[r], "llm") /\ Len(sent'[r]) - Len(sent[r]) <= 2
                 ELSE /\ sent'[r] = <<LLMCall("analysis")>>
                      /\ sent[r] = <<LLMCall("analysis")>>
                      /\ pc'[r] = "idle"
       /\ \A r \in Slots :
             (Len(sent'[r]) > Len(sent[r]) /\ sent'[r][Len(sent'[r])] = LLMCall("format"))
             => \E out \in CallOutputs : \E reply \in RepliesTo(out) :
                    /\ Analyze(r, out, reply)
                    /\ IsCall(out, out.parsed.functionCall.name)
      ]_vars
\* A request has made its analysis call, one backend call and its formatting
\* call, and has returned.
CallBudgetWitness ==
    \E r \in Slots :
        /\ Len(sent[r]) = 3
        /\ sent[r][2].api # "llm"
        /\ sent[r][3] = LLMCall("format")
        /\ resp[r].status = 200

\* The pending fields of a user are empty, or hold a date, a time and a
\* duration other than zero.
AllOrNothing(context) ==
    \/ context = EmptyContext
    \/ /\ context.date \notin {NoneText, <<>>}
       /\ context.time \notin {NoneText, <<>>}
       /\ context.duration \notin {NoneInt, 0}

\* C39: after every step each user's pending-appointment fields are empty or
\* hold all three of date, time and duration with a duration other than
\* zero; and a scheduling query from which a date is parsed without a time,
\* or with a range of no length, leaves the pending fields as the sweep of
\* that request left them.
PendingAllOrNothing ==
    [][/\ \A u \in DOMAIN appointment_context' : AllOrNothing(appointment_context'[u])
       /\ \A r \in Slots, q \in AppointmentRequests :
             (/\ Start(r, q.query, q.user_id, q.latitude, q.longitude, q.authorization)
              /\ IsAppointmentQuery(QueryText[q.query])
              /\ parse_date_time(QueryText[q.query]).date # NoneText
              /\ \/ parse_date_time(QueryText[q.query]).time = NoneText
                 \/ parse_date_time(QueryText[q.query]).duration = 0)
             => appointment_context' =
                    clean_old_conversations(conversation_history, last_interaction,
                                            search_cache, appointment_context, now)
                        .appointment_context
      ]_vars
\* A request whose text gives a range of no length is at its analysis call,
\* and the user's pending fields are those an earlier text left.
PendingAllOrNothingWitness ==
    \E r \in Slots :
        /\ req[r].query = "norange"
        /\ pc[r] = "analysis"
        /\ Has(appointment_context, req[r].user_id)
        /\ appointment_context[req[r].user_id] = parse_date_time(QueryText["book"])

\* The fixed default response in a request's language.
DefaultFor(lang) ==
    [json |-> "dict",
     response |-> [message |-> IF lang = "mr" THEN "mr: I didn't understand that"
                               ELSE "I didn't understand that. Could you please rephrase?",
                   profile |-> None]]

\* C40: when the first part of the analysis response holds no text, the step
\* makes no backend call and no second LLM call, returns the default
\* response in the request's language, and appends to the user's history
\* exactly one turn, the model turn of that response.
NonTextAnalysis ==
    [][\A r \in Slots :
          Analyze(r, LLMNonText, NoReply) =>
              /\ sent' = sent
              /\ pc'[r] = "idle"
              /\ resp'[r] = Returned(DefaultFor(req[r].lang))
              /\ Has(conversation_history, req[r].user_id)
              /\ conversation_history' =
                     [conversation_history EXCEPT ![req[r].user_id] =
                         Append(@, ModelTurn(DefaultFor(req[r].lang)))]
      ]_vars
\* A request in Marathi has returned the Marathi default response after its
\* analysis call alone, and that response is the one turn of its user's
\* history.
NonTextAnalysisWitness ==
    \E r \in Slots :
        /\ req[r].lang = "mr"
        /\ pc[r] = "idle"
        /\ sent[r] = <<LLMCall("analysis")>>
        /\ resp[r] = Returned(DefaultFor("mr"))
        /\ conversation_history[req[r].user_id] = <<ModelTurn(DefaultFor("mr"))>>

====
